---- MODULE Spec2Model ----
(***************************************************************************)
(* Verification model of VersionTools' core layer:                         *)
(*   - SystemCommand (src/src/core/SystemCommand.cpp): the process         *)
(*     executor, Unix path (executeUnix), with its child processes;        *)
(*   - GitManager (src/src/core/GitManager.cpp): the command dispatcher    *)
(*     (both executeGitCommand paths, lastError) and the porcelain status  *)
(*     decoder (getStatus, parseFileChange);                               *)
(*   - GitUtils::split (src/src/core/GitUtils.cpp).                        *)
(* Texts are sequences of one-character strings; a diagnostic literal is   *)
(* kept as a one-element sequence holding the literal.                     *)
(***************************************************************************)
EXTENDS Integers, Sequences, FiniteSets, TLC

VARIABLES
    \* ---- SystemCommand::Impl (shared by every invocation on the executor)
    cancelled,              \* Impl::cancelled
    childPid,               \* Impl::childPid, -1 when no child is tracked
    environmentVariables,   \* Impl::environmentVariables, a map key -> value
    \* ---- one execute() invocation per thread
    inv,                    \* thread -> locals of its executeUnix frame
    child,                  \* thread -> the child process that frame forked
    expired,                \* thread -> "now - startTime > timeout" is true
    lastSet,                \* history: the last setEnvironmentVariable call
    \* ---- GitManager
    lastError,              \* GitManager::Impl::lastError
    lastResult,             \* the GitOperationResult of the latest dispatch
    lastPath,               \* which executeGitCommand performed it
    \* ---- status decoder
    statusLine,             \* the line handed to parseFileChange
    change,                 \* the GitFileChange it returned
    gitOutput,              \* stdout text of `git status --porcelain=v1 -b`
    status,                 \* the GitStatus getStatus returned
    \* ---- the other decoders
    thrown,                 \* the exception that escaped the latest decoder call
    logOutput,              \* stdout text of `git log --pretty=format:... -z`
    commits,                \* what each getCommitHistory call on it returned
    clock,                  \* system_clock::now(), in seconds
    diffOutput,             \* stdout text of `git show <commit> -- <file>`
    diffs,                  \* the GitDiff list getCommitDiffAll returned
    \* ---- GitUtils
    text,                   \* split's first argument
    separator,              \* split's and join's delimiter
    tokens,                 \* what split returned
    joined,                 \* what join returned on them
    \* ---- repository validity
    pathExists,             \* the path handed to openRepository exists
    dirEntries,             \* names that exist directly under the path
    gitFile,                \* <<first line>> of <path>/.git when it is a file
    validResult,            \* what isValidRepository returned
    openResult,             \* what openRepository returned
    \* ---- facade calls from several threads
    call,                   \* thread -> the operation its facade call runs
    repositoryPath,         \* GitManager::Impl::repositoryPath
    \* ---- tracking clauses
    tracking,               \* the branch a tracking clause is reported for
    counts,                 \* decoder -> the (ahead, behind) pair it extracted
    \* ---- one revision read back by two commands
    revision,               \* the commit in the repository
    shown,                  \* command -> what its decoder returned for it
    \* ---- the configured path
    pathLog,                \* history: the open/init/clone calls and results
    \* ---- the two dispatchers
    handed                  \* dispatcher -> what it handed the executor, and got

execVars == <<cancelled, childPid, environmentVariables, inv, child, expired, lastSet>>
gitVars == <<lastError, lastResult, lastPath>>
parseVars == <<statusLine, change>>
statusVars == <<gitOutput, status>>
logVars == <<logOutput, commits, clock>>
diffVars == <<diffOutput, diffs>>
splitVars == <<text, separator, tokens, joined>>
repoVars == <<pathExists, dirEntries, gitFile, validResult, openResult>>
facadeVars == <<call, repositoryPath>>
trackVars == <<tracking, counts>>
showVars == <<revision, shown>>
afterShow == <<pathLog, handed>>
afterTrack == <<showVars, afterShow>>
lateVars == <<trackVars, afterTrack>>
moreVars == <<thrown, logVars, diffVars, splitVars, repoVars, facadeVars, lateVars>>
otherVars == <<gitVars, parseVars, statusVars, moreVars>>
vars == <<execVars, otherVars>>

(***************************************************************************)
(* Bounds of the model.                                                    *)
(***************************************************************************)
MaxBytes == 2       \* bytes one child writes, both streams together
MaxLines == 2       \* change lines in one status report

Threads == {1, 2}   \* concurrent invocations on one executor; pid = thread

\* ------------------------------------------------------------------------
\* Text helpers
\* ------------------------------------------------------------------------
NoPid == -1

\* The first n bytes a child writes to one stream: byte i is labelled i, so
\* a lost, repeated or reordered byte shows.
Written(n) == [i \in 1..n |-> ToString(i)]

\* str.find(sub) != npos
Contains(str, sub) ==
    \E i \in 0..(Len(str) - Len(sub)) : SubSeq(str, i + 1, i + Len(sub)) = sub

\* str.find(sub, from), 0-based; -1 for npos
Find(str, sub, from) ==
    LET hits == {i \in from..(Len(str) - Len(sub)) :
                    SubSeq(str, i + 1, i + Len(sub)) = sub}
    IN  IF hits = {} THEN -1 ELSE CHOOSE i \in hits : \A j \in hits : i <= j

\* str.substr(pos)
Substr(str, pos) == SubSeq(str, pos + 1, Len(str))

\* str.substr(pos, n), pos 0-based and within the text
SubstrN(s, pos, n) ==
    SubSeq(s, pos + 1, IF pos + n > Len(s) THEN Len(s) ELSE pos + n)

\* the text lit stands in s at 1-based position q
At(s, q, lit) ==
    q + Len(lit) - 1 <= Len(s) /\ SubSeq(s, q, q + Len(lit) - 1) = lit

\* GitUtils::split
RECURSIVE SplitFrom(_, _, _)
SplitFrom(str, delimiter, start) ==
    LET end == Find(str, delimiter, start)
    IN  IF end = -1
        THEN <<Substr(str, start)>>
        ELSE <<SubSeq(str, start + 1, end)>>
             \o SplitFrom(str, delimiter, end + Len(delimiter))

split(str, delimiter) == SplitFrom(str, delimiter, 0)

\* ------------------------------------------------------------------------
\* SystemCommand: data
\* ------------------------------------------------------------------------
EXIT_FAILURE == 1
SIGTERM == 15

ExitCodes == {0, EXIT_FAILURE}              \* what a command may exit with
WorkingDirs == {"", "/repo", "/missing"}    \* "/missing" does not exist
EnvKeys == {"GIT_DIR"}
EnvVals == {"a", "b"}

\* SystemCommandResult
Result(code, out, err) == [exitCode |-> code, output |-> out, error |-> err]
NoResult == Result(0, <<>>, <<>>)

PipesFailed == <<"Failed to create pipes">>
ForkFailed == <<"Failed to fork process">>
TimedOut == <<"Process timed out">>

\* wait status as waitpid fills it in
ExitedWith(code) == [exited |-> TRUE, code |-> code]
KilledBy(sig) == [exited |-> FALSE, code |-> sig]
NoStatus == [exited |-> FALSE, code |-> 0]

\* WIFEXITED(status) ? WEXITSTATUS(status) : -1
ExitCodeOf(st) == IF st.exited THEN st.code ELSE -1

EmptyEnv == [k \in {} |-> "a"]
NoSet == [set |-> FALSE, key |-> "", val |-> "", forks |-> 0]

IdleFrame == [pc |-> "idle", wd |-> "", output |-> <<>>, error |-> <<>>,
              found |-> FALSE, status |-> NoStatus, result |-> NoResult,
              seen |-> NoSet]
NoChild == [st |-> "none", sig |-> FALSE, status |-> NoStatus,
            nOut |-> 0, nErr |-> 0, pipeOut |-> <<>>, pipeErr |-> <<>>,
            env |-> EmptyEnv, seq |-> 0, inTime |-> FALSE]

\* history: inTime tells that the child ended while the timeout of its
\* invocation had not elapsed; seq is the place of a new child in the order
\* of the forks
NextSeq(procs) == Cardinality({u \in Threads : procs[u].st # "none"}) + 1

Alive(c) == c.st \in {"starting", "running"}
Returned(t) == inv[t].pc \in {"ret_pipe", "ret_fork", "ret_exit", "ret_timeout", "ret_cancel"}
PipesOpen(t) == inv[t].pc \in {"setpid", "loop", "check", "read", "twait"}

\* kill(pid, SIGTERM) as seen by the process table
Kill(procs, pid) ==
    IF pid \in Threads /\ Alive(procs[pid])
    THEN [procs EXCEPT ![pid].sig = TRUE]
    ELSE procs

\* (mutation of Drained: the bytes read are not appended)
DrainedLossy(acc, pipe) == acc

\* output.append(buffer, bytesRead) repeated until read() returns <= 0
Drained(acc, pipe) == acc \o pipe

\* ------------------------------------------------------------------------
\* SystemCommand: execute / executeUnix, one step per shared access
\* ------------------------------------------------------------------------
\* execute(): pImpl->cancelled = false, then executeUnix
Execute(t) ==
    /\ inv[t].pc = "idle"
    /\ cancelled' = FALSE
    /\ \E wd \in WorkingDirs :
          inv' = [inv EXCEPT ![t].pc = "spawn", ![t].wd = wd]
    /\ UNCHANGED <<childPid, environmentVariables, child, expired, lastSet, otherVars>>

\* (mutation of Spawn: the overrides are dropped once a child has them)
SpawnConsumesEnv(t) ==
    /\ inv[t].pc = "spawn"
    /\ inv' = [inv EXCEPT ![t].pc = "setpid", ![t].seen = lastSet]
    /\ child' = [child EXCEPT ![t] =
                    [NoChild EXCEPT !.st = "starting", !.env = environmentVariables,
                                    !.seq = NextSeq(child)]]
    /\ lastSet' = IF lastSet.set THEN [lastSet EXCEPT !.forks = @ + 1] ELSE lastSet
    /\ environmentVariables' = EmptyEnv
    /\ UNCHANGED <<cancelled, childPid, expired, otherVars>>

\* pipe(), pipe(), fork()
Spawn(t) ==
    /\ inv[t].pc = "spawn"
    /\ \/ /\ inv' = [inv EXCEPT ![t].pc = "ret_pipe",
                                ![t].result = Result(-1, <<>>, PipesFailed)]
          /\ UNCHANGED <<child, lastSet>>
       \/ /\ inv' = [inv EXCEPT ![t].pc = "ret_fork",
                                ![t].result = Result(-1, <<>>, ForkFailed)]
          /\ UNCHANGED <<child, lastSet>>
       \/ /\ inv' = [inv EXCEPT ![t].pc = "setpid", ![t].seen = lastSet]
          /\ child' = [child EXCEPT ![t] =
                          [NoChild EXCEPT !.st = "starting",
                                          !.env = environmentVariables,
                                          !.seq = NextSeq(child)]]
          /\ lastSet' = IF lastSet.set
                        THEN [lastSet EXCEPT !.forks = @ + 1]
                        ELSE lastSet
    /\ UNCHANGED <<cancelled, childPid, environmentVariables, expired, otherVars>>

\* parent: pImpl->childPid = pid ... startTime = now
SetPid(t) ==
    /\ inv[t].pc = "setpid"
    /\ childPid' = t
    /\ inv' = [inv EXCEPT ![t].pc = "loop", ![t].output = <<>>, ![t].error = <<>>]
    /\ expired' = [expired EXCEPT ![t] = FALSE]
    /\ UNCHANGED <<cancelled, environmentVariables, child, lastSet, otherVars>>

\* loop head: if (pImpl->cancelled) { kill; break; } and the code after the loop
PollCancel(t) ==
    /\ inv[t].pc = "loop"
    /\ IF cancelled
       THEN /\ child' = Kill(child, t)
            /\ childPid' = NoPid
            /\ inv' = [inv EXCEPT ![t].pc = "ret_cancel",
                                  ![t].result = Result(-1, inv[t].output, inv[t].error)]
       ELSE /\ inv' = [inv EXCEPT ![t].pc = "check"]
            /\ UNCHANGED <<child, childPid>>
    /\ UNCHANGED <<cancelled, environmentVariables, expired, lastSet, otherVars>>

\* timeout check, then waitpid(pid, &status, WNOHANG)
PollCheck(t) ==
    /\ inv[t].pc = "check"
    /\ IF expired[t]
       THEN /\ child' = Kill(child, t)
            /\ inv' = [inv EXCEPT ![t].pc = "twait"]
       ELSE IF child[t].st = "dead"
       THEN /\ child' = [child EXCEPT ![t].st = "reaped"]
            /\ inv' = [inv EXCEPT ![t].pc = "read", ![t].found = TRUE,
                                  ![t].status = child[t].status]
       ELSE /\ inv' = [inv EXCEPT ![t].pc = "read", ![t].found = FALSE]
            /\ UNCHANGED child
    /\ UNCHANGED <<cancelled, childPid, environmentVariables, expired, lastSet, otherVars>>

\* the two read loops; if (result == pid) the final reads, close, return
ReadPipes(t) ==
    /\ inv[t].pc = "read"
    /\ LET out1 == Drained(inv[t].output, child[t].pipeOut)
           err1 == Drained(inv[t].error, child[t].pipeErr)
           out2 == Drained(out1, <<>>)
           err2 == Drained(err1, <<>>)
       IN  IF inv[t].found
           THEN /\ inv' = [inv EXCEPT ![t].pc = "ret_exit",
                                      ![t].output = out2, ![t].error = err2,
                                      ![t].result = Result(ExitCodeOf(inv[t].status), out2, err2)]
                /\ childPid' = NoPid
           ELSE /\ inv' = [inv EXCEPT ![t].pc = "loop",
                                      ![t].output = out1, ![t].error = err1]
                /\ UNCHANGED childPid
    /\ child' = [child EXCEPT ![t].pipeOut = <<>>, ![t].pipeErr = <<>>]
    /\ UNCHANGED <<cancelled, environmentVariables, expired, lastSet, otherVars>>

\* (mutation of TimeoutWait: the captured bytes are returned, not dropped)
TimeoutWaitKeepsOutput(t) ==
    /\ inv[t].pc = "twait"
    /\ child[t].st = "dead"
    /\ child' = [child EXCEPT ![t].st = "reaped"]
    /\ childPid' = NoPid
    /\ inv' = [inv EXCEPT ![t].pc = "ret_timeout",
                          ![t].result = Result(-1, inv[t].output, TimedOut)]
    /\ UNCHANGED <<cancelled, environmentVariables, expired, lastSet, otherVars>>

\* timeout branch after kill: waitpid(pid, nullptr, 0) blocks until the child
\* is dead; close, childPid = -1, return {-1, "", "Process timed out"}
TimeoutWait(t) ==
    /\ inv[t].pc = "twait"
    /\ child[t].st = "dead"
    /\ child' = [child EXCEPT ![t].st = "reaped"]
    /\ childPid' = NoPid
    /\ inv' = [inv EXCEPT ![t].pc = "ret_timeout",
                          ![t].result = Result(-1, <<>>, TimedOut)]
    /\ UNCHANGED <<cancelled, environmentVariables, expired, lastSet, otherVars>>

\* cancel(), called from outside the polling thread
Cancel ==
    /\ cancelled' = TRUE
    /\ child' = Kill(child, childPid)
    /\ UNCHANGED <<childPid, environmentVariables, inv, expired, lastSet, otherVars>>

SetEnvironmentVariable(name, value) ==
    /\ environmentVariables' =
          [k \in DOMAIN environmentVariables \cup {name} |->
              IF k = name THEN value ELSE environmentVariables[k]]
    /\ lastSet' = [set |-> TRUE, key |-> name, val |-> value, forks |-> 0]
    /\ UNCHANGED <<cancelled, childPid, inv, child, expired, otherVars>>

ClearEnvironmentVariables ==
    /\ environmentVariables' = EmptyEnv
    /\ lastSet' = NoSet
    /\ UNCHANGED <<cancelled, childPid, inv, child, expired, otherVars>>

\* ------------------------------------------------------------------------
\* The environment of the executor: the child process and the clock
\* ------------------------------------------------------------------------
\* child after fork: chdir (exit(EXIT_FAILURE) on failure), setenv, execvp
\* (exit(EXIT_FAILURE) when it returns)
ChildStart(t) ==
    /\ child[t].st = "starting"
    /\ IF inv[t].wd = "/missing"
       THEN child' = [child EXCEPT ![t].st = "dead",
                                   ![t].status = ExitedWith(EXIT_FAILURE),
                                   ![t].inTime = ~expired[t]]
       ELSE \E execOk \in BOOLEAN :
               child' = IF execOk
                        THEN [child EXCEPT ![t].st = "running"]
                        ELSE [child EXCEPT ![t].st = "dead",
                                           ![t].status = ExitedWith(EXIT_FAILURE),
                                           ![t].inTime = ~expired[t]]
    /\ UNCHANGED <<cancelled, childPid, environmentVariables, inv, expired, lastSet, otherVars>>

ChildWriteOut(t) ==
    /\ child[t].st = "running" /\ PipesOpen(t)
    /\ child[t].nOut + child[t].nErr < MaxBytes
    /\ child' = [child EXCEPT ![t].nOut = @ + 1,
                              ![t].pipeOut = Append(@, ToString(child[t].nOut + 1))]
    /\ UNCHANGED <<cancelled, childPid, environmentVariables, inv, expired, lastSet, otherVars>>

ChildWriteErr(t) ==
    /\ child[t].st = "running" /\ PipesOpen(t)
    /\ child[t].nOut + child[t].nErr < MaxBytes
    /\ child' = [child EXCEPT ![t].nErr = @ + 1,
                              ![t].pipeErr = Append(@, ToString(child[t].nErr + 1))]
    /\ UNCHANGED <<cancelled, childPid, environmentVariables, inv, expired, lastSet, otherVars>>

ChildExit(t) ==
    /\ child[t].st = "running"
    /\ \E code \in ExitCodes :
          child' = [child EXCEPT ![t].st = "dead", ![t].status = ExitedWith(code),
                                 ![t].inTime = ~expired[t]]
    /\ UNCHANGED <<cancelled, childPid, environmentVariables, inv, expired, lastSet, otherVars>>

\* a pending SIGTERM terminates the child (a child that handles or ignores
\* the signal never takes this step)
ChildTerm(t) ==
    /\ Alive(child[t]) /\ child[t].sig
    /\ child' = [child EXCEPT ![t].st = "dead", ![t].status = KilledBy(SIGTERM),
                              ![t].inTime = ~expired[t]]
    /\ UNCHANGED <<cancelled, childPid, environmentVariables, inv, expired, lastSet, otherVars>>

\* steady_clock passes startTime + timeout
TimeoutElapses(t) ==
    /\ inv[t].pc \in {"loop", "check", "read"}
    /\ ~expired[t]
    /\ expired' = [expired EXCEPT ![t] = TRUE]
    /\ UNCHANGED <<cancelled, childPid, environmentVariables, inv, child, lastSet, otherVars>>

\* ------------------------------------------------------------------------
\* Specifications of the executor
\* ------------------------------------------------------------------------
ExecInit ==
    /\ cancelled = FALSE
    /\ childPid = NoPid
    /\ environmentVariables = EmptyEnv
    /\ inv = [t \in Threads |-> IdleFrame]
    /\ child = [t \in Threads |-> NoChild]
    /\ expired = [t \in Threads |-> FALSE]
    /\ lastSet = NoSet

GitIdle ==
    /\ lastError = <<>>
    /\ lastResult = <<>>
    /\ lastPath = "none"

ParseIdle ==
    /\ statusLine = <<>>
    /\ change = <<>>

StatusIdle ==
    /\ gitOutput = <<>>
    /\ status = <<>>

NoThrow == thrown = "none"

LogIdle ==
    /\ logOutput = <<>>
    /\ commits = <<>>
    /\ clock = 0

DiffIdle ==
    /\ diffOutput = <<>>
    /\ diffs = <<>>

SplitIdle ==
    /\ text = <<>>
    /\ separator = <<>>
    /\ tokens = <<>>
    /\ joined = <<>>

RepoIdle ==
    /\ pathExists = FALSE
    /\ dirEntries = {}
    /\ gitFile = <<>>
    /\ validResult = <<>>
    /\ openResult = <<>>

\* no facade call is in progress
NoCall == [pc |-> "idle", op |-> "", dir |-> "", target |-> ""]

FacadeIdle ==
    /\ call = [t \in Threads |-> NoCall]
    /\ repositoryPath = "repo"

TrackIdle == tracking = <<>> /\ counts = [status |-> <<>>, ref |-> <<>>]

ShowIdle == revision = <<>> /\ shown = [history |-> <<>>, show |-> <<>>]

AfterShowIdle == pathLog = <<>> /\ handed = [args |-> <<>>, string |-> <<>>]
AfterTrackIdle == ShowIdle /\ AfterShowIdle
LateIdle == TrackIdle /\ AfterTrackIdle

DecodersIdle == NoThrow /\ LogIdle /\ DiffIdle /\ SplitIdle

Init ==
    /\ ExecInit /\ GitIdle /\ ParseIdle /\ StatusIdle
    /\ DecodersIdle /\ RepoIdle /\ FacadeIdle /\ LateIdle

\* One invocation (thread 1) with everything its child, the clock and an
\* outside cancel() can do.
Next ==
    \/ Execute(1) \/ Spawn(1) \/ SetPid(1) \/ PollCancel(1)
    \/ PollCheck(1) \/ ReadPipes(1) \/ TimeoutWait(1)
    \/ ChildStart(1) \/ ChildWriteOut(1) \/ ChildWriteErr(1)
    \/ ChildExit(1) \/ ChildTerm(1)
    \/ TimeoutElapses(1)
    \/ Cancel

Spec == Init /\ [][Next]_vars

\* The same invocation with its scheduling: the thread that runs execute
\* keeps taking its steps and the steady clock keeps advancing. Nothing
\* obliges the child to exit, nor to die of a signal it may ignore.
ParentStep(t) ==
    \/ Spawn(t) \/ SetPid(t) \/ PollCancel(t)
    \/ PollCheck(t) \/ ReadPipes(t) \/ TimeoutWait(t)

SpecFair ==
    /\ Init /\ [][Next]_vars
    /\ WF_vars(ParentStep(1))
    /\ WF_vars(TimeoutElapses(1))

\* Invocations on one executor with environment overrides set and cleared
\* between them; the children write nothing and nothing is cancelled.
NextEnv ==
    \/ \E t \in Threads :
          \/ Execute(t) \/ Spawn(t) \/ SetPid(t) \/ PollCancel(t)
          \/ PollCheck(t) \/ ReadPipes(t)
          \/ ChildStart(t) \/ ChildExit(t)
    \/ \E k \in EnvKeys, v \in EnvVals : SetEnvironmentVariable(k, v)
    \/ ClearEnvironmentVariables

SpecEnv == Init /\ [][NextEnv]_vars

\* Invocations that run at the same time on one executor (execute from two
\* threads, or executeAsync), with cancel() called from outside; the children
\* write nothing and no timeout elapses.
NextShared ==
    \/ \E t \in Threads :
          \/ Execute(t) \/ Spawn(t) \/ SetPid(t) \/ PollCancel(t)
          \/ PollCheck(t) \/ ReadPipes(t)
          \/ ChildStart(t) \/ ChildExit(t) \/ ChildTerm(t)
    \/ Cancel

SpecShared == Init /\ [][NextShared]_vars

\* ------------------------------------------------------------------------
\* GitManager: the two dispatcher paths
\* ------------------------------------------------------------------------
\* "not a git repository", as words
Marker == <<"not", "a", "git", "repository">>

\* what the executor may hand back to the dispatcher
GitExitCodes == {0, 1, 128, -1}
GitTexts == { <<>>, <<"ok">>, <<"fatal:">> \o Marker, <<"not", "a", "git">> }
ExecutorResults ==
    { Result(c, o, e) : c \in GitExitCodes, o \in GitTexts, e \in GitTexts }

\* GitOperationResult
OpResult(cat, out, err, code) ==
    [result |-> cat, output |-> out, error |-> err, exitCode |-> code]
isSuccess(r) == r.result = "Success"

\* GitManager::executeGitCommand(args, workingDir): the category it derives
ClassifyArgs(r) ==
    IF r.exitCode # 0
    THEN IF Contains(r.output, Marker)
         THEN "InvalidRepository"
         ELSE IF r.exitCode = 128 THEN "Failed" ELSE "Failed"
    ELSE "Success"

\* GitManager::Impl::executeGitCommand(command): the category it derives
ClassifyString(r) == IF r.exitCode = 0 THEN "Success" ELSE "Failed"

\* GitManager::executeGitCommand(args, workingDir, progressCallback)
ExecuteGitCommandArgs(r) ==
    /\ lastResult' = <<OpResult(ClassifyArgs(r), r.output, r.error, r.exitCode)>>
    /\ lastPath' = "args"
    /\ UNCHANGED <<lastError, execVars, parseVars, statusVars, moreVars>>

\* GitManager::Impl::executeGitCommand(command)
ExecuteGitCommandString(r) ==
    LET res == OpResult(ClassifyString(r), r.output, r.error, r.exitCode)
    IN  /\ lastResult' = <<res>>
        /\ lastPath' = "string"
        /\ lastError' = IF ~isSuccess(res)
                        THEN (IF res.error = <<>> THEN res.output ELSE res.error)
                        ELSE lastError
        /\ UNCHANGED <<execVars, parseVars, statusVars, moreVars>>

NextGit ==
    \/ \E r \in ExecutorResults : ExecuteGitCommandArgs(r)
    \/ \E r \in ExecutorResults : ExecuteGitCommandString(r)

InitGit ==
    /\ ExecInit /\ GitIdle /\ ParseIdle /\ StatusIdle
    /\ DecodersIdle /\ RepoIdle /\ FacadeIdle /\ LateIdle

SpecGit == InitGit /\ [][NextGit]_vars

\* ------------------------------------------------------------------------
\* GitManager: the porcelain status decoder
\* ------------------------------------------------------------------------
MaxSegments == 3    \* " -> "-separated parts of a path
NL == <<"\n">>
Arrow == <<" ", "-", ">", " ">>

FileStatuses == {"Untracked", "Modified", "Added", "Deleted", "Renamed",
                 "Copied", "Conflicted", "Ignored"}

\* what `GitFileChange change;` leaves in the two members without an
\* initializer when no branch assigns them: any enum representation, in the
\* enumeration or not, and either flag value
Indeterminate ==
    { <<st, b>> : st \in FileStatuses \cup {"OutOfRange"}, b \in BOOLEAN }

\* (mutation of StatusOf: the unstaged column is tested before the staged)
StatusOfUnstagedFirst(stagedFlag, unstagedFlag) ==
    IF stagedFlag = "?" /\ unstagedFlag = "?" THEN <<"Untracked", FALSE>>
    ELSE IF stagedFlag = "!" /\ unstagedFlag = "!" THEN <<"Ignored", FALSE>>
    ELSE IF unstagedFlag = "M" THEN <<"Modified", FALSE>>
    ELSE IF unstagedFlag = "D" THEN <<"Deleted", FALSE>>
    ELSE IF stagedFlag = "A" THEN <<"Added", TRUE>>
    ELSE IF stagedFlag = "M" THEN <<"Modified", TRUE>>
    ELSE IF stagedFlag = "D" THEN <<"Deleted", TRUE>>
    ELSE IF stagedFlag = "R" THEN <<"Renamed", TRUE>>
    ELSE IF stagedFlag = "C" THEN <<"Copied", TRUE>>
    ELSE IF unstagedFlag = "U" \/ stagedFlag = "U" THEN <<"Conflicted", FALSE>>
    ELSE IF unstagedFlag = "A" THEN <<"Added", FALSE>>
    ELSE <<>>

\* parseFileChange: the if / else-if chain over the two flags; <<>> when no
\* branch is taken
StatusOf(stagedFlag, unstagedFlag) ==
    IF stagedFlag = "?" /\ unstagedFlag = "?" THEN <<"Untracked", FALSE>>
    ELSE IF stagedFlag = "!" /\ unstagedFlag = "!" THEN <<"Ignored", FALSE>>
    ELSE IF stagedFlag = "A" THEN <<"Added", TRUE>>
    ELSE IF stagedFlag = "M" THEN <<"Modified", TRUE>>
    ELSE IF stagedFlag = "D" THEN <<"Deleted", TRUE>>
    ELSE IF stagedFlag = "R" THEN <<"Renamed", TRUE>>
    ELSE IF stagedFlag = "C" THEN <<"Copied", TRUE>>
    ELSE IF unstagedFlag = "M" THEN <<"Modified", FALSE>>
    ELSE IF unstagedFlag = "D" THEN <<"Deleted", FALSE>>
    ELSE IF unstagedFlag = "U" \/ stagedFlag = "U" THEN <<"Conflicted", FALSE>>
    ELSE IF unstagedFlag = "A" THEN <<"Added", FALSE>>
    ELSE <<>>

\* (mutation of PathOf: the path is taken from offset 2)
PathOfOffByOne(statusLine_) == Substr(statusLine_, 2)

\* change.filePath = statusLine.substr(3)
PathOf(statusLine_) == Substr(statusLine_, 3)

\* the rename / copy split of parseFileChange
SplitRename(path) ==
    IF Contains(path, Arrow)
    THEN LET parts == split(path, Arrow)
         IN  IF Len(parts) = 2
             THEN [oldPath |-> parts[1], filePath |-> parts[2]]
             ELSE [oldPath |-> <<>>, filePath |-> path]
    ELSE [oldPath |-> <<>>, filePath |-> path]

\* GitFileChange
FileChange(path, old, st, staged) ==
    [filePath |-> path, oldPath |-> old, status |-> st, isStaged |-> staged]

\* GitManager::parseFileChange: the records a call may return
parseFileChange(statusLine_) ==
    IF Len(statusLine_) < 3
    THEN { FileChange(<<>>, <<>>, "Untracked", FALSE) }
    ELSE LET paths == SplitRename(PathOf(statusLine_))
             flags == StatusOf(statusLine_[1], statusLine_[2])
         IN  { FileChange(paths.filePath, paths.oldPath, f[1], f[2]) :
                  f \in (IF flags = <<>> THEN Indeterminate ELSE {flags}) }

\* GitStatus (the members the change loop writes)
EmptyStatus ==
    [changes |-> <<>>, hasUncommittedChanges |-> FALSE,
     hasUnstagedChanges |-> FALSE, hasStagedChanges |-> FALSE]

\* (mutation of StatusStep: an untracked change counts as unstaged)
StatusStepCountsUntracked(st, c) ==
    [changes |-> Append(st.changes, c),
     hasUncommittedChanges |-> st.hasUncommittedChanges \/ c.status # "Ignored",
     hasStagedChanges |-> st.hasStagedChanges \/ c.isStaged,
     hasUnstagedChanges |-> st.hasUnstagedChanges \/ ~c.isStaged]

\* getStatus: the body of the change loop
StatusStep(st, c) ==
    [changes |-> Append(st.changes, c),
     hasUncommittedChanges |-> st.hasUncommittedChanges \/ c.status # "Ignored",
     hasStagedChanges |-> st.hasStagedChanges \/ c.isStaged,
     hasUnstagedChanges |->
         st.hasUnstagedChanges \/ (~c.isStaged /\ c.status # "Untracked")]

\* getStatus: for (size_t i = 1; i < lines.size(); ++i), lines[i] being
\* lines_[i + 1] here
RECURSIVE ChangeLoop(_, _, _)
ChangeLoop(lines_, i, st) ==
    IF i >= Len(lines_) THEN {st}
    ELSE IF Len(lines_[i + 1]) >= 3
    THEN UNION { ChangeLoop(lines_, i + 1, StatusStep(st, c)) :
                    c \in parseFileChange(lines_[i + 1]) }
    ELSE ChangeLoop(lines_, i + 1, st)

\* getStatus: lines[0].substr(3) on a first line that is exactly "##" throws
\* std::out_of_range (pos 3 > size 2), which nothing in getStatus catches
BranchLineThrows(lines_) ==
    /\ lines_ # <<>>
    /\ SubstrN(lines_[1], 0, 2) = <<"#", "#">>
    /\ Len(lines_[1]) < 3

getStatusThrows(r) ==
    /\ isSuccess(OpResult(ClassifyArgs(r), r.output, r.error, r.exitCode))
    /\ BranchLineThrows(split(r.output, NL))

\* GitManager::getStatus on the result of `git status --porcelain=v1 -b`, when
\* it returns
getStatus(r) ==
    IF ~isSuccess(OpResult(ClassifyArgs(r), r.output, r.error, r.exitCode))
    THEN {EmptyStatus}
    ELSE ChangeLoop(split(r.output, NL), 1, EmptyStatus)

\* ---- inputs of the decoders
FlagChars == {"?", "!", "A", "M", "D", "R", "C", "U", "T", " "}
Names == {<<"a">>, <<"b">>}

RECURSIVE PathsOf(_)
PathsOf(n) ==
    IF n = 1 THEN Names \cup {<<>>}
    ELSE { p \o Arrow \o x : p \in PathsOf(n - 1), x \in Names \cup {<<>>} }

Paths == UNION { PathsOf(n) : n \in 1..MaxSegments }

StatusLines ==
    { <<x, y, " ">> \o p : x \in FlagChars, y \in FlagChars, p \in Paths }
    \cup { <<>>, <<"M">>, <<"#", "#">> }

Header == <<"#", "#", " ", "m">>
ReportLines ==
    { <<"A", " ", " ", "a">>, <<"M", " ", " ", "a">>, <<" ", "M", " ", "a">>,
      <<"?", "?", " ", "a">>, <<"!", "!", " ", "a">>, <<"U", "U", " ", "a">>,
      <<"T", " ", " ", "a">>, <<"R", " ", " ">> \o <<"a">> \o Arrow \o <<"b">> }

\* first lines: a branch header, and one cut off after the marker
Headers == { Header, <<"#", "#">> }

RECURSIVE ReportsOf(_)
ReportsOf(n) ==
    IF n = 0 THEN { h \o NL : h \in Headers }
    ELSE { rep \o l \o NL : rep \in ReportsOf(n - 1), l \in ReportLines }

Reports == {<<>>, <<"#", "#">>} \cup UNION { ReportsOf(n) : n \in 0..MaxLines }

\* GitManager::parseFileChange(statusLine)
ParseFileChange ==
    /\ change = <<>>
    /\ \E c \in parseFileChange(statusLine) : change' = <<c>>
    /\ UNCHANGED <<statusLine, execVars, gitVars, statusVars, moreVars>>

InitParse ==
    /\ ExecInit /\ GitIdle /\ StatusIdle
    /\ DecodersIdle /\ RepoIdle /\ FacadeIdle /\ LateIdle
    /\ statusLine \in StatusLines
    /\ change = <<>>

NextParse == ParseFileChange

SpecParse == InitParse /\ [][NextParse]_vars

\* GitManager::getStatus()
GetStatus ==
    /\ status = <<>> /\ thrown = "none"
    /\ \E code \in {0, 128} :
          IF getStatusThrows(Result(code, gitOutput, <<>>))
          THEN thrown' = "std::out_of_range" /\ UNCHANGED status
          ELSE /\ \E s \in getStatus(Result(code, gitOutput, <<>>)) :
                      status' = <<s>>
               /\ UNCHANGED thrown
    /\ UNCHANGED <<gitOutput, execVars, gitVars, parseVars, logVars, diffVars,
                   splitVars, repoVars, facadeVars, lateVars>>

InitStatus ==
    /\ ExecInit /\ GitIdle /\ ParseIdle
    /\ DecodersIdle /\ RepoIdle /\ FacadeIdle /\ LateIdle
    /\ gitOutput \in Reports
    /\ status = <<>>

NextStatus == GetStatus

SpecStatus == InitStatus /\ [][NextStatus]_vars

\* ------------------------------------------------------------------------
\* GitUtils::join and the number parsers of the decoders
\* ------------------------------------------------------------------------
\* (mutation of join: the parts are concatenated without the delimiter)
RECURSIVE joinNoDelimiter(_, _)
joinNoDelimiter(parts, delimiter) ==
    IF parts = <<>> THEN <<>>
    ELSE IF Len(parts) = 1 THEN parts[1]
    ELSE joinNoDelimiter(SubSeq(parts, 1, Len(parts) - 1), delimiter)
         \o parts[Len(parts)]

\* GitUtils::join
RECURSIVE join(_, _)
join(parts, delimiter) ==
    IF parts = <<>> THEN <<>>
    ELSE IF Len(parts) = 1 THEN parts[1]
    ELSE join(SubSeq(parts, 1, Len(parts) - 1), delimiter)
         \o delimiter \o parts[Len(parts)]

Digits == {"0", "1", "2", "3", "4", "5", "6", "7", "8", "9"}
DigitVal(c) == CHOOSE n \in 0..9 : ToString(n) = c

\* length of the run of digits at the start of s
RECURSIVE DigitRun(_)
DigitRun(s) ==
    IF s # <<>> /\ s[1] \in Digits THEN 1 + DigitRun(Tail(s)) ELSE 0

INT_MAX == 2147483647

\* the value of a digit run, as long as it stays within 0..INT_MAX
RECURSIVE Decimal(_, _)
Decimal(ds, acc) ==
    IF ds = <<>> THEN [ok |-> TRUE, value |-> acc]
    ELSE LET d == DigitVal(ds[1])
         IN  IF acc > (INT_MAX - d) \div 10
             THEN [ok |-> FALSE, value |-> 0]
             ELSE Decimal(Tail(ds), 10 * acc + d)

\* std::stoi on text that starts with a digit or is empty: ok is FALSE when it
\* throws (std::invalid_argument without a digit, std::out_of_range past INT_MAX)
stoi(s) ==
    IF DigitRun(s) = 0 THEN [ok |-> FALSE, value |-> 0]
    ELSE Decimal(SubSeq(s, 1, DigitRun(s)), 0)

\* std::stoll likewise; the epoch fields of the model are short, so the value
\* never leaves the long long range and only the no-digit failure arises
stoll(s) ==
    IF DigitRun(s) = 0 THEN [ok |-> FALSE, value |-> 0]
    ELSE Decimal(SubSeq(s, 1, DigitRun(s)), 0)

\* ------------------------------------------------------------------------
\* GitManager: the log decoder
\* ------------------------------------------------------------------------
MaxRecords == 2     \* NUL-separated blocks in one log output
MaxTicks == 2       \* seconds the clock advances

NUL == <<"NUL">>    \* the byte 0
Bar == <<"|">>
Space == <<" ">>

\* GitCommit
Commit(hash, shortHash, author, email, message, timestamp, parentHashes) ==
    [hash |-> hash, shortHash |-> shortHash, author |-> author,
     email |-> email, message |-> message, shortMessage |-> message,
     timestamp |-> timestamp, parentHashes |-> parentHashes]

\* GitCommit{}: empty strings, the epoch, no parents
DefaultCommit == Commit(<<>>, <<>>, <<>>, <<>>, <<>>, 0, <<>>)

\* GitManager::parseCommit, called when system_clock::now() is `now`
parseCommit(commitData, now) ==
    LET parts == split(commitData, Bar)
    IN  IF Len(parts) < 7
        THEN DefaultCommit
        ELSE Commit(parts[1], parts[2], parts[3], parts[4], parts[5],
                    IF stoll(parts[6]).ok THEN stoll(parts[6]).value ELSE now,
                    IF parts[7] # <<>> THEN split(parts[7], Space) ELSE <<>>)

\* getCommitHistory: the loop over the blocks
RECURSIVE CommitLoop(_, _)
CommitLoop(commitBlocks, now) ==
    IF commitBlocks = <<>> THEN <<>>
    ELSE (IF Head(commitBlocks) # <<>>
          THEN <<parseCommit(Head(commitBlocks), now)>>
          ELSE <<>>)
         \o CommitLoop(Tail(commitBlocks), now)

\* GitManager::getCommitHistory on the result of `git log ... -z`
getCommitHistory(r, now) ==
    IF ~isSuccess(OpResult(ClassifyArgs(r), r.output, r.error, r.exitCode))
    THEN <<>>
    ELSE CommitLoop(split(r.output, NUL), now)

\* ---- inputs: records as git prints them, and damaged ones
LogRecords ==
    { <<"h", "|", "s", "|", "n", "|", "e", "|", "m", "|", "7", "|">>,
      <<"h", "|", "s", "|", "n", "|", "e", "|", "m", "|", "8", "|", "p", " ", "q">>,
      <<"h", "|", "s", "|", "n", "|", "e", "|", "m", "|", "x", "|", "p">>,
      <<"h", "|", "s", "|", "n", "|", "e", "|", "m", "|", "7">>,
      <<"h", "|", "s">>,
      <<>> }

RECURSIVE LogsOf(_)
LogsOf(n) ==
    IF n = 1 THEN LogRecords
    ELSE { l \o NUL \o rec : l \in LogsOf(n - 1), rec \in LogRecords }

LogOutputs == UNION { LogsOf(n) : n \in 1..MaxRecords }

\* GitManager::getCommitHistory(), called once and then once more on the
\* same output
GetCommitHistory ==
    /\ Len(commits) < 2
    /\ \E code \in {0, 128} :
          commits' = Append(commits,
              [exitCode |-> code, at |-> clock,
               list |-> getCommitHistory(Result(code, logOutput, <<>>), clock)])
    /\ UNCHANGED <<logOutput, clock, thrown, diffVars, splitVars, repoVars,
                   facadeVars, lateVars, execVars, gitVars, parseVars, statusVars>>

\* the wall clock advances
Tick ==
    /\ clock < MaxTicks
    /\ clock' = clock + 1
    /\ UNCHANGED <<logOutput, commits, thrown, diffVars, splitVars, repoVars,
                   facadeVars, lateVars, execVars, gitVars, parseVars, statusVars>>

InitLog ==
    /\ ExecInit /\ GitIdle /\ ParseIdle /\ StatusIdle
    /\ NoThrow /\ DiffIdle /\ SplitIdle /\ RepoIdle /\ FacadeIdle /\ LateIdle
    /\ logOutput \in LogOutputs
    /\ commits = <<>>
    /\ clock = 0

NextLog == GetCommitHistory \/ Tick

SpecLog == InitLog /\ [][NextLog]_vars

\* ------------------------------------------------------------------------
\* GitUtils: split, then join of what it returned
\* ------------------------------------------------------------------------
MaxLen == 7         \* characters in a text handed to split

Alphabet == {"a", "|", "NUL"}
Separators == { Bar, NUL, <<"a", "|">>, <<"|", "|">> }

RECURSIVE TextsOf(_)
TextsOf(n) ==
    IF n = 0 THEN {<<>>}
    ELSE { Append(t, c) : t \in TextsOf(n - 1), c \in Alphabet }

Texts == UNION { TextsOf(n) : n \in 0..MaxLen }

\* GitUtils::split(text, separator)
Split ==
    /\ tokens = <<>>
    /\ tokens' = split(text, separator)
    /\ UNCHANGED <<text, separator, joined, thrown, logVars, diffVars, repoVars,
                   facadeVars, lateVars, execVars, gitVars, parseVars, statusVars>>

\* GitUtils::join(tokens, separator)
Join ==
    /\ tokens # <<>> /\ joined = <<>>
    /\ joined' = <<join(tokens, separator)>>
    /\ UNCHANGED <<text, separator, tokens, thrown, logVars, diffVars, repoVars,
                   facadeVars, lateVars, execVars, gitVars, parseVars, statusVars>>

InitSplit ==
    /\ ExecInit /\ GitIdle /\ ParseIdle /\ StatusIdle
    /\ NoThrow /\ LogIdle /\ DiffIdle /\ RepoIdle /\ FacadeIdle /\ LateIdle
    /\ text \in Texts
    /\ separator \in Separators
    /\ tokens = <<>>
    /\ joined = <<>>

NextSplit == Split \/ Join

SpecSplit == InitSplit /\ [][NextSplit]_vars

\* ------------------------------------------------------------------------
\* GitManager: the diff decoder of getCommitDiffAll
\* ------------------------------------------------------------------------
MaxDiffLines == 4   \* lines after the first hunk header of a diff text

NoMatch == [matched |-> FALSE, g1 |-> <<>>, has2 |-> FALSE, g2 |-> <<>>,
            g3 |-> <<>>, has4 |-> FALSE, g4 |-> <<>>]

\* "@@ -(\d+)(?:,(\d+))? \+(\d+)(?:,(\d+))? @@" matched at position q
HunkAt(s, q) ==
    LET q1 == q + 4
        n1 == DigitRun(SubSeq(s, q1, Len(s)))
        q2 == q1 + n1
        n2 == IF At(s, q2, <<",">>) THEN DigitRun(SubSeq(s, q2 + 1, Len(s))) ELSE 0
        q3 == IF n2 > 0 THEN q2 + 1 + n2 ELSE q2
        q4 == q3 + 2
        n3 == DigitRun(SubSeq(s, q4, Len(s)))
        q5 == q4 + n3
        n4 == IF At(s, q5, <<",">>) THEN DigitRun(SubSeq(s, q5 + 1, Len(s))) ELSE 0
        q6 == IF n4 > 0 THEN q5 + 1 + n4 ELSE q5
    IN  IF /\ At(s, q, <<"@", "@", " ", "-">>) /\ n1 > 0
           /\ At(s, q3, <<" ", "+">>) /\ n3 > 0
           /\ At(s, q6, <<" ", "@", "@">>)
        THEN [matched |-> TRUE,
              g1 |-> SubSeq(s, q1, q2 - 1),
              has2 |-> n2 > 0, g2 |-> SubSeq(s, q2 + 1, q2 + n2),
              g3 |-> SubSeq(s, q4, q5 - 1),
              has4 |-> n4 > 0, g4 |-> SubSeq(s, q5 + 1, q5 + n4)]
        ELSE NoMatch

\* std::regex_search(line, matches, hunkRegex): the leftmost match
hunkRegex(line) ==
    LET hits == {q \in 1..Len(line) : HunkAt(line, q).matched}
    IN  IF hits = {} THEN NoMatch
        ELSE HunkAt(line, CHOOSE q \in hits : \A r \in hits : q <= r)

\* GitDiffLine and GitDiffHunk; a line number that was never assigned is -1
DiffLine(type, content, oldLineNumber, newLineNumber) ==
    [type |-> type, content |-> content,
     oldLineNumber |-> oldLineNumber, newLineNumber |-> newLineNumber]

Hunk(header, oldStart, oldCount, newStart, newCount) ==
    [header |-> header, lines |-> <<>>, oldStart |-> oldStart,
     oldCount |-> oldCount, newStart |-> newStart, newCount |-> newCount]

\* (mutation of HunkOf: an absent count group gives 0)
HunkOfDefaultZero(line, m) ==
    Hunk(line, stoi(m.g1).value, IF m.has2 THEN stoi(m.g2).value ELSE 0,
         stoi(m.g3).value, IF m.has4 THEN stoi(m.g4).value ELSE 0)

\* the hunk built from a matched header
HunkOf(line, m) ==
    Hunk(line, stoi(m.g1).value, IF m.has2 THEN stoi(m.g2).value ELSE 1,
         stoi(m.g3).value, IF m.has4 THEN stoi(m.g4).value ELSE 1)

\* some std::stoi call on the groups of the match throws
HunkThrows(m) ==
    \/ ~stoi(m.g1).ok \/ (m.has2 /\ ~stoi(m.g2).ok)
    \/ ~stoi(m.g3).ok \/ (m.has4 /\ ~stoi(m.g4).ok)

\* locals of the hunk loop: diff.hunks, currentHunk (it points at the last
\* hunk when set), oldLineNum, newLineNum; threw when an exception left it
LoopStart == [hunks |-> <<>>, currentHunk |-> FALSE,
              oldLineNum |-> 0, newLineNum |-> 0, threw |-> FALSE]

\* (mutation of Classify: every line takes both numbers)
ClassifyNumbersAll(line, st) ==
    IF line[1] = "+"
    THEN <<DiffLine("Addition", Substr(line, 1), st.oldLineNum, st.newLineNum)>>
    ELSE IF line[1] = "-"
    THEN <<DiffLine("Deletion", Substr(line, 1), st.oldLineNum, st.newLineNum)>>
    ELSE IF line[1] = " "
    THEN <<DiffLine("Context", Substr(line, 1), st.oldLineNum, st.newLineNum)>>
    ELSE <<>>

\* the if / else-if chain over a line inside a hunk: <<the GitDiffLine>>, or
\* <<>> when the line is skipped
Classify(line, st) ==
    IF line[1] = "+"
    THEN <<DiffLine("Addition", Substr(line, 1), -1, st.newLineNum)>>
    ELSE IF line[1] = "-"
    THEN <<DiffLine("Deletion", Substr(line, 1), st.oldLineNum, -1)>>
    ELSE IF line[1] = " "
    THEN <<DiffLine("Context", Substr(line, 1), st.oldLineNum, st.newLineNum)>>
    ELSE IF \/ SubstrN(line, 0, 4) = <<"d", "i", "f", "f">>
            \/ SubstrN(line, 0, 5) = <<"i", "n", "d", "e", "x">>
            \/ SubstrN(line, 0, 3) = <<"+", "+", "+">>
            \/ SubstrN(line, 0, 3) = <<"-", "-", "-">>
    THEN <<DiffLine("Header", line, -1, -1)>>
    ELSE <<>>

\* one iteration of `for (const auto& line : lines)`
DiffStep(st, line) ==
    IF line = <<>> THEN st
    ELSE IF SubstrN(line, 0, 2) = <<"@", "@">>
    THEN LET m == hunkRegex(line)
         IN  IF ~m.matched THEN st
             ELSE IF HunkThrows(m) THEN [st EXCEPT !.threw = TRUE]
             ELSE [st EXCEPT !.hunks = Append(@, HunkOf(line, m)),
                             !.currentHunk = TRUE,
                             !.oldLineNum = HunkOf(line, m).oldStart,
                             !.newLineNum = HunkOf(line, m).newStart]
    ELSE IF st.currentHunk
    THEN LET dl == Classify(line, st)
             n == Len(st.hunks)
         IN  IF dl = <<>> THEN st
             ELSE [st EXCEPT
                     !.hunks[n].lines = Append(@, dl[1]),
                     !.oldLineNum = IF dl[1].type \in {"Deletion", "Context"}
                                    THEN @ + 1 ELSE @,
                     !.newLineNum = IF dl[1].type \in {"Addition", "Context"}
                                    THEN @ + 1 ELSE @]
    ELSE st

RECURSIVE DiffLoop(_, _)
DiffLoop(lines_, st) ==
    IF lines_ = <<>> \/ st.threw THEN st
    ELSE DiffLoop(Tail(lines_), DiffStep(st, Head(lines_)))

BinaryFiles == <<"B", "i", "n", "a", "r", "y", " ", "f", "i", "l", "e", "s">>

\* GitDiff (the members the decoder of one file's text writes)
Diff(isBinary, hunks) == [isBinary |-> isBinary, hunks |-> hunks]

\* GitManager::getCommitDiffAll for a commit that changed one file: files is
\* the result of `git diff-tree --name-status`, show the result of
\* `git show <commit> -- <file>`.  [threw, diffs]
getCommitDiffAll(files, show) ==
    IF \/ ~isSuccess(OpResult(ClassifyArgs(files), files.output, files.error, files.exitCode))
       \/ files.output = <<>>
    THEN [threw |-> FALSE, diffs |-> <<>>]
    ELSE IF ~isSuccess(OpResult(ClassifyArgs(show), show.output, show.error, show.exitCode))
    THEN [threw |-> FALSE, diffs |-> <<>>]
    ELSE IF Contains(show.output, BinaryFiles)
    THEN [threw |-> FALSE, diffs |-> <<Diff(TRUE, <<>>)>>]
    ELSE LET st == DiffLoop(split(show.output, NL), LoopStart)
         IN  IF st.threw
             THEN [threw |-> TRUE, diffs |-> <<>>]
             ELSE [threw |-> FALSE, diffs |-> <<Diff(FALSE, st.hunks)>>]

\* ---- inputs of the diff decoder
\* digit runs of a hunk header: a count 0, leading zeros, INT_MAX + 1
Numbers == { <<"1", "0">>, <<"0">>, <<"0", "7">>,
             <<"2", "1", "4", "7", "4", "8", "3", "6", "4", "8">> }
Counts == {<<>>} \cup { <<",">> \o n : n \in Numbers }

HunkHeaders ==
    { <<"@", "@", " ", "-">> \o a \o b \o <<" ", "+">> \o c \o d \o <<" ", "@", "@">> :
         a \in Numbers, b \in Counts, c \in Numbers, d \in Counts }

ScenarioHeader ==
    <<"@", "@", " ", "-", "1", "0", ",", "3", " ", "+", "1", "0", ",", "4", " ", "@", "@">>

\* lines that may follow a hunk header
BodyLines ==
    { <<" ", "c">>, <<"-", "d">>, <<"+", "a">>,
      <<"d", "i", "f", "f">>, <<"i", "n", "d", "e", "x">>,
      <<"+", "+", "+">>, <<"-", "-", "-">> }

\* lines the loop passes over, and a second hunk header
OddLines ==
    { <<>>, <<"\\">>, <<"@", "@">>,
      <<"@", "@", " ", "-", "3", " ", "+", "5", " ", "@", "@", " ", "f">> }

RECURSIVE BodiesOf(_)
BodiesOf(n) ==
    IF n = 0 THEN {<<>>}
    ELSE { b \o l \o NL : b \in BodiesOf(n - 1), l \in BodyLines }

Preamble == <<"d", "i", "f", "f">> \o NL \o <<"-", "-", "-">> \o NL

DiffOutputs ==
    { h \o pad : h \in HunkHeaders, pad \in {<<>>, <<" ", "f">>} }
    \cup { ScenarioHeader \o NL \o b :
              b \in UNION { BodiesOf(n) : n \in 0..MaxDiffLines } }
    \cup { ScenarioHeader \o NL \o b1 \o x \o NL \o b2 :
              b1 \in BodiesOf(1), x \in OddLines, b2 \in BodiesOf(1) }
    \cup { Preamble \o ScenarioHeader \o NL \o b : b \in BodiesOf(1) }
    \cup { <<>>, <<"@", "@">>, <<"@", "@", " ", "-", "1", ",", " ", "+", "1", " ", "@", "@">>,
           BinaryFiles \o <<" ", "a">> }

NameStatus == <<"M", "\t", "f">>

\* GitManager::getCommitDiffAll(commitHash)
GetCommitDiffAll ==
    /\ diffs = <<>> /\ thrown = "none"
    /\ \E c1 \in {0, 128}, c2 \in {0, 128} :
          LET r == getCommitDiffAll(Result(c1, NameStatus, <<>>),
                                    Result(c2, diffOutput, <<>>))
          IN  IF r.threw
              THEN thrown' = "std::out_of_range" /\ UNCHANGED diffs
              ELSE diffs' = <<[files |-> c1, show |-> c2, list |-> r.diffs]>>
                   /\ UNCHANGED thrown
    /\ UNCHANGED <<diffOutput, logVars, splitVars, repoVars, facadeVars, lateVars,
                   execVars, gitVars, parseVars, statusVars>>

InitDiff ==
    /\ ExecInit /\ GitIdle /\ ParseIdle /\ StatusIdle
    /\ NoThrow /\ LogIdle /\ SplitIdle /\ RepoIdle /\ FacadeIdle /\ LateIdle
    /\ diffOutput \in DiffOutputs
    /\ diffs = <<>>

NextDiff == GetCommitDiffAll

SpecDiff == InitDiff /\ [][NextDiff]_vars

\* ------------------------------------------------------------------------
\* GitManager: isValidRepository and openRepository
\* ------------------------------------------------------------------------
DotGit == ".git"
BareEntries == {"HEAD", "objects", "refs"}
GitdirPrefix == <<"g", "i", "t", "d", "i", "r", ":", " ">>

\* GitManager::isValidRepository: std::filesystem::exists on the path, on
\* <path>/.git and on the three entries of a bare repository
isValidRepository(exists, entries) ==
    IF ~exists THEN FALSE
    ELSE IF DotGit \in entries THEN TRUE
    ELSE "HEAD" \in entries /\ "objects" \in entries /\ "refs" \in entries

\* GitManager::openRepository: the GitOperationResult it returns
openRepository(exists, entries) ==
    IF ~isValidRepository(exists, entries)
    THEN OpResult("InvalidRepository", <<>>, <<"Not a valid git repository">>, 1)
    ELSE OpResult("Success", <<>>, <<>>, 0)

\* (mutation of AdoptedPath: the path is stored whatever the result)
AdoptedPathAlways(res, path, current) == path

\* openRepository, initRepository, cloneRepository:
\* if (result.isSuccess()) pImpl->repositoryPath = path;
AdoptedPath(res, path, current) == IF isSuccess(res) THEN path ELSE current

\* ---- inputs: first lines of a .git file
PointerLines ==
    { GitdirPrefix \o <<"/", "x">>, GitdirPrefix,
      <<"g", "i", "t", "d", "i", "r", ":", "/", "x">>,
      <<"G", "I", "T", "D", "I", "R", ":", " ", "/", "x">>,
      <<"x">>, <<>> }

\* GitManager::isValidRepository(path)
IsValidRepository ==
    /\ validResult = <<>>
    /\ validResult' = <<isValidRepository(pathExists, dirEntries)>>
    /\ UNCHANGED <<pathExists, dirEntries, gitFile, openResult, thrown, logVars,
                   diffVars, splitVars, facadeVars, lateVars, execVars, gitVars,
                   parseVars, statusVars>>

\* GitManager::openRepository(path), the path being the directory "other"
OpenRepository ==
    /\ openResult = <<>>
    /\ openResult' = <<openRepository(pathExists, dirEntries)>>
    /\ repositoryPath' =
          AdoptedPath(openRepository(pathExists, dirEntries), "other",
                      repositoryPath)
    /\ UNCHANGED <<pathExists, dirEntries, gitFile, validResult, thrown, logVars,
                   diffVars, splitVars, call, lateVars, execVars, gitVars,
                   parseVars, statusVars>>

InitRepo ==
    /\ ExecInit /\ GitIdle /\ ParseIdle /\ StatusIdle
    /\ DecodersIdle /\ FacadeIdle /\ LateIdle
    /\ pathExists \in BOOLEAN
    /\ dirEntries \in SUBSET ({DotGit} \cup BareEntries)
    /\ gitFile \in {<<>>} \cup { <<l>> : l \in PointerLines }
    /\ ~pathExists => dirEntries = {}
    /\ DotGit \notin dirEntries => gitFile = <<>>
    /\ validResult = <<>>
    /\ openResult = <<>>

NextRepo == IsValidRepository \/ OpenRepository

SpecRepo == InitRepo /\ [][NextRepo]_vars

(***************************************************************************)
(* The facade called from several threads: every operation builds its      *)
(* argument list and hands it to executeGitCommand, which creates a fresh  *)
(* SystemCommand and runs the child in the manager's directory.            *)
(***************************************************************************)
\* directories a manager can point at
Dirs == {"repo", "other"}

\* addFiles, commit, createBranch, deleteBranch, checkoutBranch, stash,
\* stashPop, stashDrop, cloneRepository: the first arguments of the child
WriteOps ==
    {"add", "commit", "branch", "branch -d", "checkout", "stash push",
     "stash pop", "stash drop", "clone"}

\* getStatus: a child that only reads the directory
ReadOps == {"status"}

\* GitManager::executeGitCommand(args, workingDir = ""): the directory the
\* child is started in
WorkingDir(workingDir, path) == IF workingDir = "" THEN path ELSE workingDir

\* executeGitCommand up to the running child: a fresh SystemCommand is
\* created and the child is started in the working directory; nothing is
\* acquired before, and no other call is waited for
ExecuteGitCommand(t, op, path) ==
    /\ call[t].pc = "idle"
    /\ call' = [call EXCEPT ![t] =
                   [pc |-> "running", op |-> op,
                    dir |-> WorkingDir("", repositoryPath),
                    target |-> IF op = "clone" THEN path
                               ELSE WorkingDir("", repositoryPath)]]
    /\ UNCHANGED repositoryPath

\* a write operation called on thread t (for clone: directly or through
\* cloneRepositoryAsync, whose std::async body is the synchronous call)
WriteCall(t) ==
    /\ \E op \in WriteOps, path \in Dirs : ExecuteGitCommand(t, op, path)
    /\ UNCHANGED <<execVars, gitVars, parseVars, statusVars, thrown, logVars,
                   diffVars, splitVars, repoVars, lateVars>>

\* a read operation called on thread t
ReadCall(t) ==
    /\ \E op \in ReadOps : ExecuteGitCommand(t, op, repositoryPath)
    /\ UNCHANGED <<execVars, gitVars, parseVars, statusVars, thrown, logVars,
                   diffVars, splitVars, repoVars, lateVars>>

\* the child of thread t ends and the call returns; cloneRepository stores
\* the path when the child succeeded
Return(t) ==
    /\ call[t].pc = "running"
    /\ \E exitCode \in {0, 1} :
           repositoryPath' =
               IF call[t].op = "clone" /\ exitCode = 0
               THEN call[t].target ELSE repositoryPath
    /\ call' = [call EXCEPT ![t] = NoCall]
    /\ UNCHANGED <<execVars, gitVars, parseVars, statusVars, thrown, logVars,
                   diffVars, splitVars, repoVars, lateVars>>

InitFacade ==
    /\ ExecInit /\ GitIdle /\ ParseIdle /\ StatusIdle
    /\ DecodersIdle /\ RepoIdle /\ FacadeIdle /\ LateIdle

NextFacade ==
    \E t \in Threads : WriteCall(t) \/ ReadCall(t) \/ Return(t)

SpecFacade == InitFacade /\ [][NextFacade]_vars

\* ------------------------------------------------------------------------
\* GitManager: ahead/behind counts of a tracking clause
\* ------------------------------------------------------------------------
\* length of the longest run of characters of `set` in s from 1-based q
RECURSIVE RunIn(_, _, _)
RunIn(s, q, set) ==
    IF q <= Len(s) /\ s[q] \in set THEN 1 + RunIn(s, q + 1, set) ELSE 0

\* length of the longest run of characters outside `set` in s from 1-based q
RECURSIVE RunNotIn(_, _, _)
RunNotIn(s, q, set) ==
    IF q <= Len(s) /\ s[q] \notin set THEN 1 + RunNotIn(s, q + 1, set) ELSE 0

Dots == <<".", ".", ".">>
Ahead == <<"a", "h", "e", "a", "d", " ">>
Behind == <<"b", "e", "h", "i", "n", "d", " ">>

\* getStatus: regex_search(branchLine, matches, branchRegex) with
\* ([^.]+)(?:\.\.\.([^[\s]+))?\s*(?:\[([^\]]+)\])?
\* Everything after group 1 is optional, so the leftmost match takes the
\* longest run without a dot for group 1 and each optional part only where it
\* stands right behind what was matched before it.
branchRegex(branchLine) ==
    LET s == branchLine
        s0 == 1 + RunIn(s, 1, {"."})
        n1 == RunNotIn(s, s0, {"."})
        p == s0 + n1
        n2 == IF At(s, p, Dots) THEN RunNotIn(s, p + 3, {"[", " "}) ELSE 0
        p2 == IF n2 > 0 THEN p + 3 + n2 ELSE p
        q == p2 + RunIn(s, p2, {" "})
        n3 == IF At(s, q, <<"[">>) THEN RunNotIn(s, q + 1, {"]"}) ELSE 0
        has3 == n3 > 0 /\ At(s, q + 1 + n3, <<"]">>)
    IN  [matched |-> n1 > 0,
         currentBranch |-> SubSeq(s, s0, p - 1),
         upstreamBranch |-> IF n2 > 0 THEN <<SubSeq(s, p + 3, p2 - 1)>> ELSE <<>>,
         trackInfo |-> IF has3 THEN <<SubSeq(s, q + 1, q + n3)>> ELSE <<>>]

\* GitStatus / GitBranch: the counts, both 0 by default; ok is FALSE when a
\* std::stoi call threw
NoCounts == [ok |-> TRUE, aheadCount |-> 0, behindCount |-> 0]

\* getStatus: the sregex_iterator loop over "ahead (\d+)|behind (\d+)": every
\* match assigns, so the last match of each kind stays
RECURSIVE TrackLoop(_, _, _)
TrackLoop(s, q, acc) ==
    IF q > Len(s) \/ ~acc.ok THEN acc
    ELSE IF At(s, q, Ahead) /\ DigitRun(SubSeq(s, q + 6, Len(s))) > 0
    THEN LET n == stoi(SubSeq(s, q + 6, Len(s)))
         IN  TrackLoop(s, q + 6 + DigitRun(SubSeq(s, q + 6, Len(s))),
                       [acc EXCEPT !.ok = n.ok, !.aheadCount = n.value])
    ELSE IF At(s, q, Behind) /\ DigitRun(SubSeq(s, q + 7, Len(s))) > 0
    THEN LET n == stoi(SubSeq(s, q + 7, Len(s)))
         IN  TrackLoop(s, q + 7 + DigitRun(SubSeq(s, q + 7, Len(s))),
                       [acc EXCEPT !.ok = n.ok, !.behindCount = n.value])
    ELSE TrackLoop(s, q + 1, acc)

\* getStatus: the counts it stores for the first line of the report
statusTracking(line) ==
    LET m == branchRegex(Substr(line, 3))
    IN  IF m.matched /\ m.trackInfo # <<>>
        THEN TrackLoop(m.trackInfo[1], 1, NoCounts)
        ELSE NoCounts

\* regex_search(parts[4], matches, word (\d+)): the digits of the first match,
\* <<>> without a match
RECURSIVE FirstMatch(_, _, _)
FirstMatch(s, q, word) ==
    IF q > Len(s) THEN <<>>
    ELSE IF At(s, q, word) /\ DigitRun(SubSeq(s, q + Len(word), Len(s))) > 0
    THEN <<SubSeq(s, q + Len(word),
                  q + Len(word) + DigitRun(SubSeq(s, q + Len(word), Len(s))) - 1)>>
    ELSE FirstMatch(s, q + 1, word)

\* getBranches: the counts it stores for the field %(upstream:track)
refTracking(field) ==
    LET a == FirstMatch(field, 1, Ahead)
        b == FirstMatch(field, 1, Behind)
        an == IF a = <<>> THEN [ok |-> TRUE, value |-> 0] ELSE stoi(a[1])
        bn == IF b = <<>> THEN [ok |-> TRUE, value |-> 0] ELSE stoi(b[1])
    IN  IF field = <<>> THEN NoCounts
        ELSE [ok |-> an.ok /\ bn.ok, aheadCount |-> an.value,
              behindCount |-> bn.value]

\* ---- inputs: a branch, its upstream and the clause git reports for it
TrackNumbers == {<<"1">>, <<"2">>, <<"1", "0">>}
BranchNames == {<<"m">>, <<"v", ".", "1">>}
Clauses ==
    {<<>>, <<"g", "o", "n", "e">>}
    \cup { Ahead \o n : n \in TrackNumbers }
    \cup { Behind \o n : n \in TrackNumbers }
    \cup { Ahead \o n \o <<",", " ">> \o Behind \o k :
              n \in TrackNumbers, k \in TrackNumbers }

Trackings ==
    { [name |-> b, upstream |-> <<"o">>, clause |-> c] :
         b \in BranchNames, c \in Clauses }
    \cup { [name |-> b, upstream |-> <<>>, clause |-> <<>>] : b \in BranchNames }

\* the clause in brackets, as both commands print it; nothing without a clause
Bracketed(c) == IF c = <<>> THEN <<>> ELSE <<"[">> \o c \o <<"]">>

\* first line of `git status --porcelain=v1 -b` for the branch
StatusHeader(t) ==
    <<"#", "#", " ">> \o t.name
    \o (IF t.upstream = <<>> THEN <<>> ELSE Dots \o t.upstream)
    \o (IF t.clause = <<>> THEN <<>> ELSE <<" ">> \o Bracketed(t.clause))

\* GitManager::getStatus on the branch: the counts of the returned GitStatus
GetStatusTracking ==
    /\ tracking # <<>> /\ counts.status = <<>>
    /\ counts' = [counts EXCEPT
                     !.status = <<statusTracking(StatusHeader(tracking[1]))>>]
    /\ UNCHANGED <<tracking, thrown, logVars, diffVars, splitVars, repoVars,
                   facadeVars, afterTrack, execVars, gitVars, parseVars,
                   statusVars>>

\* GitManager::getBranches on the branch: the counts of its GitBranch
GetBranchesTracking ==
    /\ tracking # <<>> /\ counts.ref = <<>>
    /\ counts' = [counts EXCEPT
                     !.ref = <<refTracking(Bracketed(tracking[1].clause))>>]
    /\ UNCHANGED <<tracking, thrown, logVars, diffVars, splitVars, repoVars,
                   facadeVars, afterTrack, execVars, gitVars, parseVars,
                   statusVars>>

InitTrack ==
    /\ ExecInit /\ GitIdle /\ ParseIdle /\ StatusIdle
    /\ DecodersIdle /\ RepoIdle /\ FacadeIdle /\ AfterTrackIdle
    /\ tracking \in { <<t>> : t \in Trackings }
    /\ counts = [status |-> <<>>, ref |-> <<>>]

NextTrack == GetStatusTracking \/ GetBranchesTracking

SpecTrack == InitTrack /\ [][NextTrack]_vars

\* ------------------------------------------------------------------------
\* GitManager: one revision read back through `git log` and `git show`
\* ------------------------------------------------------------------------
\* --pretty=format: of getCommitHistory and of getCommit, as the
\* placeholders between the bars
HistoryFormat == <<"H", "h", "an", "ae", "s", "ct", "P">>
ShowFormat == <<"H", "h", "an", "ae", "s", "B", "ct", "P">>

\* what git prints for one placeholder of a commit
Placeholder(c, f) ==
    CASE f = "H" -> c.hash
      [] f = "h" -> c.shortHash
      [] f = "an" -> c.author
      [] f = "ae" -> c.email
      [] f = "s" -> c.subject
      [] f = "B" -> c.body
      [] f = "ct" -> c.epoch
      [] f = "P" -> join(c.parents, Space)

\* what git prints for a commit under a format
Pretty(format, c) ==
    join([i \in 1..Len(format) |-> Placeholder(c, format[i])], Bar)

\* GitManager::getCommit on the result of `git show --pretty=format:...
\* --no-patch <hash>`: <<>> for std::nullopt
getCommit(r, now) ==
    IF ~isSuccess(OpResult(ClassifyArgs(r), r.output, r.error, r.exitCode))
       \/ r.output = <<>>
    THEN <<>>
    ELSE <<parseCommit(r.output, now)>>

\* ---- inputs: commits of a repository
Revisions ==
    { [hash |-> <<"h">>, shortHash |-> <<"s">>, author |-> <<"n">>,
       email |-> <<"e">>, subject |-> <<"m">>, body |-> b, epoch |-> e,
       parents |-> ps] :
          b \in {<<"m">>, <<"9", " ", "m">>, <<>>},
          e \in {<<"7">>, <<"8">>},
          ps \in {<<>>, <<<<"p">>>>, <<<<"p">>, <<"q">>>>} }

\* GitManager::getCommitHistory(), the repository holding the one revision
GetCommitHistoryOf ==
    /\ revision # <<>> /\ shown.history = <<>>
    /\ \E code \in {0, 128} :
          shown' = [shown EXCEPT !.history =
              <<getCommitHistory(
                    Result(code, Pretty(HistoryFormat, revision[1]), <<>>),
                    clock)>>]
    /\ UNCHANGED <<revision, trackVars, afterShow, thrown, logVars, diffVars,
                   splitVars, repoVars, facadeVars, execVars, gitVars,
                   parseVars, statusVars>>

\* GitManager::getCommit(hash) for the revision
GetCommit ==
    /\ revision # <<>> /\ shown.show = <<>>
    /\ \E code \in {0, 128} :
          shown' = [shown EXCEPT !.show =
              <<getCommit(Result(code, Pretty(ShowFormat, revision[1]), <<>>),
                          clock)>>]
    /\ UNCHANGED <<revision, trackVars, afterShow, thrown, logVars, diffVars,
                   splitVars, repoVars, facadeVars, execVars, gitVars,
                   parseVars, statusVars>>

InitShow ==
    /\ ExecInit /\ GitIdle /\ ParseIdle /\ StatusIdle
    /\ DecodersIdle /\ RepoIdle /\ FacadeIdle /\ TrackIdle /\ AfterShowIdle
    /\ revision \in { <<c>> : c \in Revisions }
    /\ shown = [history |-> <<>>, show |-> <<>>]

NextShow == GetCommitHistoryOf \/ GetCommit \/ Tick

SpecShow == InitShow /\ [][NextShow]_vars

\* ------------------------------------------------------------------------
\* GitManager: results that are built without running the external tool
\* ------------------------------------------------------------------------
EmptyArgumentErrors ==
    { <<"Remote name and URL cannot be empty">>,
      <<"Remote name cannot be empty">>,
      <<"Tag name cannot be empty">> }

\* `GitOperationResult result; result.result = Failed; result.error = msg;`:
\* output stays empty and exitCode keeps its default member initializer 0
RejectedResult(msg) == OpResult("Failed", <<>>, msg, 0)

\* addRemote, removeRemote, renameRemote, fetch, pull, push, createTag,
\* deleteTag called with an empty name
RejectEmptyArgument ==
    /\ \E msg \in EmptyArgumentErrors : lastResult' = <<RejectedResult(msg)>>
    /\ lastPath' = "validation"
    /\ UNCHANGED <<lastError, execVars, parseVars, statusVars, moreVars>>

\* addFiles, removeFiles called with an empty file list
AcceptEmptyList ==
    /\ lastResult' = <<OpResult("Success", <<>>, <<>>, 0)>>
    /\ lastPath' = "validation"
    /\ UNCHANGED <<lastError, execVars, parseVars, statusVars, moreVars>>

\* openRepository(path): its result, whatever the directory holds
OpenRepositoryResult ==
    /\ \E exists \in BOOLEAN, entries \in SUBSET ({DotGit} \cup BareEntries) :
          lastResult' = <<openRepository(exists, entries)>>
    /\ lastPath' = "open"
    /\ UNCHANGED <<lastError, execVars, parseVars, statusVars, moreVars>>

NextOps ==
    \/ \E r \in ExecutorResults : ExecuteGitCommandArgs(r)
    \/ \E r \in ExecutorResults : ExecuteGitCommandString(r)
    \/ RejectEmptyArgument
    \/ AcceptEmptyList
    \/ OpenRepositoryResult

SpecOps == InitGit /\ [][NextOps]_vars

\* ------------------------------------------------------------------------
\* GitManager: what the two dispatchers hand to the executor
\* ------------------------------------------------------------------------
\* texts here are sequences of words and single spaces
Git == <<"git">>

\* logical commands: the words after "git"
Commands ==
    { <<"remote", "-v">>, <<"remote", "add", "o", "u">>, <<"tag", "-d", "t">>,
      <<"push", "o", "--tags">>, <<"fetch", "o">>, <<"status">>,
      <<"remote", "remove", "o">>, <<"tag", "t">>, <<"add", ".">> }

\* the command as one string, as the remote and tag operations build it
CommandLine(words) == join([i \in 1..Len(words) |-> <<words[i]>>], Space)

\* the words as an argument list, as the other operations build it
ArgList(words) == [i \in 1..Len(words) |-> <<words[i]>>]

\* SystemCommand::Impl::buildArgVector
buildArgVector(command, args) == <<command>> \o args

\* what git itself answers to a command line
GitRun(args) ==
    IF args # <<>> /\ args[1] = <<"tag">>
    THEN Result(1, <<>>, <<"error">>)
    ELSE Result(0, <<"ok">>, <<>>)

\* executeUnix: execvp(command.c_str(), argv) in the child, and
\* exit(EXIT_FAILURE) when no program of that name is found on the PATH
execvp(command, argv) ==
    IF command = Git THEN GitRun(Tail(argv))
    ELSE Result(EXIT_FAILURE, <<>>, <<>>)

\* SystemCommand::execute(command, args, dir): what reaches execvp, and the
\* result
Handed(words, command, args) ==
    [words |-> words, program |-> command,
     argv |-> buildArgVector(command, args),
     result |-> execvp(command, buildArgVector(command, args))]

\* GitManager::executeGitCommand(args): cmd.execute("git", args, dir)
DispatchArgs ==
    /\ handed.args = <<>>
    /\ \E words \in Commands :
          LET h == Handed(words, Git, ArgList(words))
              r == h.result
          IN  /\ handed' = [handed EXCEPT !.args = <<h>>]
              /\ lastResult' =
                    <<OpResult(ClassifyArgs(r), r.output, r.error, r.exitCode)>>
    /\ lastPath' = "args"
    /\ UNCHANGED <<lastError, pathLog, trackVars, showVars, thrown, logVars,
                   diffVars, splitVars, repoVars, facadeVars, execVars,
                   parseVars, statusVars>>

\* GitManager::Impl::executeGitCommand(command):
\* cmd.execute("git " + command, {}, repositoryPath)
DispatchString ==
    /\ handed.string = <<>>
    /\ \E words \in Commands :
          LET h == Handed(words, Git \o Space \o CommandLine(words), <<>>)
              r == h.result
              res == OpResult(ClassifyString(r), r.output, r.error, r.exitCode)
          IN  /\ handed' = [handed EXCEPT !.string = <<h>>]
              /\ lastResult' = <<res>>
              /\ lastError' = IF ~isSuccess(res)
                              THEN (IF res.error = <<>> THEN res.output
                                    ELSE res.error)
                              ELSE lastError
    /\ lastPath' = "string"
    /\ UNCHANGED <<pathLog, trackVars, showVars, thrown, logVars, diffVars,
                   splitVars, repoVars, facadeVars, execVars, parseVars,
                   statusVars>>

NextPaths == DispatchArgs \/ DispatchString

SpecPaths == InitGit /\ [][NextPaths]_vars

\* ------------------------------------------------------------------------
\* GitManager: the configured path over a sequence of calls
\* ------------------------------------------------------------------------
MaxCalls == 3       \* open / init / clone calls on one manager

\* what the executor returns for `git init` and `git clone`
SetupResults ==
    { Result(0, <<"ok">>, <<>>), Result(1, <<>>, <<"fatal:">>),
      Result(128, <<"fatal:">> \o Marker, <<>>) }

\* history: one call, its result and whether the external tool was run
PathCall(op, path, res, ran) ==
    [op |-> op, path |-> path, result |-> res, ran |-> ran]

\* GitManager::openRepository(path), whatever the directory holds
OpenRepositoryAt(path) ==
    /\ Len(pathLog) < MaxCalls
    /\ \E exists \in BOOLEAN, entries \in SUBSET ({DotGit} \cup BareEntries) :
          LET res == openRepository(exists, entries)
          IN  /\ repositoryPath' = AdoptedPath(res, path, repositoryPath)
              /\ pathLog' = Append(pathLog, PathCall("open", path, res, FALSE))
    /\ UNCHANGED <<call, handed, trackVars, showVars, thrown, logVars, diffVars,
                   splitVars, repoVars, execVars, gitVars, parseVars,
                   statusVars>>

\* GitManager::initRepository(path, bare)
InitRepository(path) ==
    /\ Len(pathLog) < MaxCalls
    /\ \E r \in SetupResults :
          LET res == OpResult(ClassifyArgs(r), r.output, r.error, r.exitCode)
          IN  /\ repositoryPath' = AdoptedPath(res, path, repositoryPath)
              /\ pathLog' = Append(pathLog, PathCall("init", path, res, TRUE))
    /\ UNCHANGED <<call, handed, trackVars, showVars, thrown, logVars, diffVars,
                   splitVars, repoVars, execVars, gitVars, parseVars,
                   statusVars>>

\* GitManager::cloneRepository(url, path, progressCallback)
CloneRepository(path) ==
    /\ Len(pathLog) < MaxCalls
    /\ \E r \in SetupResults :
          LET res == OpResult(ClassifyArgs(r), r.output, r.error, r.exitCode)
          IN  /\ repositoryPath' = AdoptedPath(res, path, repositoryPath)
              /\ pathLog' = Append(pathLog, PathCall("clone", path, res, TRUE))
    /\ UNCHANGED <<call, handed, trackVars, showVars, thrown, logVars, diffVars,
                   splitVars, repoVars, execVars, gitVars, parseVars,
                   statusVars>>

NextPath ==
    \E path \in Dirs :
        OpenRepositoryAt(path) \/ InitRepository(path) \/ CloneRepository(path)

SpecPath == InitGit /\ [][NextPath]_vars

\* ========================================================================
\* Claims about the executor
\* ========================================================================
Forked(t) == child[t].st # "none"
HasOverride(env, k, v) == k \in DOMAIN env /\ env[k] = v

\* C1: when the poll finds the timeout elapsed before it saw the child exit,
\* the child is sent SIGTERM and execute returns {-1, "", "Process timed out"}
\* whatever had been captured; on return the child has been waited for (it no
\* longer runs) and the current-child slot is cleared.
C1_TimeoutResult ==
    \A t \in Threads :
        /\ inv[t].pc = "twait" => (Alive(child[t]) => child[t].sig)
        /\ inv[t].pc = "ret_timeout" =>
              /\ inv[t].result = Result(-1, <<>>, TimedOut)
              /\ child[t].st = "reaped"
              /\ childPid = NoPid

C1_Witness ==
    \E t \in Threads :
        /\ inv[t].pc = "ret_timeout"
        /\ inv[t].output # <<>> /\ inv[t].error # <<>>
        /\ inv[t].result.output = <<>>

\* C2: a cancellation seen by the poll ends the invocation as a timeout does:
\* exit code -1, the captured output and error dropped, the child no longer
\* running when execute returns.
C2_CancelEndsAsTimeout ==
    \A t \in Threads :
        inv[t].pc = "ret_cancel" =>
            /\ inv[t].result.exitCode = -1
            /\ inv[t].result.output = <<>>
            /\ inv[t].result.error \notin {Written(n) : n \in 1..MaxBytes}
            /\ ~Alive(child[t])

\* C3: when the child's exit is what ends the invocation, the result holds
\* the child's exit status and exactly the bytes it wrote to each stream, in
\* order.
C3_CompleteOutput ==
    \A t \in Threads :
        inv[t].pc = "ret_exit" =>
            /\ inv[t].result.output = Written(child[t].nOut)
            /\ inv[t].result.error = Written(child[t].nErr)
            /\ child[t].status.exited => inv[t].result.exitCode = child[t].status.code

C3_Witness ==
    \E t \in Threads :
        /\ inv[t].pc = "ret_exit"
        /\ child[t].status.exited
        /\ child[t].nOut >= 1 /\ child[t].nErr >= 1
        /\ inv[t].result.output = Written(child[t].nOut)

\* C4: pipe failure, fork failure and a child that cannot chdir each give a
\* result with exit code -1 and a non-empty error text.
C4_StartupFailures ==
    \A t \in Threads :
        (\/ inv[t].pc \in {"ret_pipe", "ret_fork"}
         \/ inv[t].pc = "ret_exit" /\ inv[t].wd = "/missing")
        => /\ inv[t].result.exitCode = -1
           /\ inv[t].result.error # <<>>

\* C5 (as claimed): a child forked when an earlier child has been forked
\* since the last setEnvironmentVariable(k, v) runs without k=v.
C5_NextInvocationOnly ==
    \A t \in Threads :
        (Forked(t) /\ inv[t].seen.set /\ inv[t].seen.forks >= 1)
        => ~HasOverride(child[t].env, inv[t].seen.key, inv[t].seen.val)

\* C5 (amended): an override set with setEnvironmentVariable(k, v) is given
\* to the child of every later execute, the first and the following ones,
\* until clearEnvironmentVariables or another set call.
C5_OverridesPersist ==
    \A t \in Threads :
        (Forked(t) /\ inv[t].seen.set)
        => HasOverride(child[t].env, inv[t].seen.key, inv[t].seen.val)

C5_Witness ==
    \E t \in Threads :
        /\ Forked(t) /\ inv[t].seen.set /\ inv[t].seen.forks >= 1
        /\ HasOverride(child[t].env, inv[t].seen.key, inv[t].seen.val)
        /\ inv[t].pc = "ret_exit"

\* the child forked last
MostRecent(t) == Forked(t) /\ \A u \in Threads : child[u].seq <= child[t].seq

\* C19: while the child forked last is running and its invocation is polling,
\* the current-child slot shared by the invocations holds that child's pid, so
\* cancel() signals it.
C19_SlotTracksLatest ==
    \A t \in Threads :
        (MostRecent(t) /\ Alive(child[t]) /\ inv[t].pc \in {"loop", "check", "read"})
        => childPid = t

\* ========================================================================
\* Claims about the dispatcher
\* ========================================================================
Dispatched == Len(lastResult) = 1

\* C6: Success iff exit code 0; otherwise InvalidRepository iff the marker
\* occurs in standard output or standard error, and Failed if it does not.
C6_Classification ==
    Dispatched =>
        LET r == lastResult[1]
        IN  r.result =
               IF r.exitCode = 0 THEN "Success"
               ELSE IF Contains(r.output, Marker) \/ Contains(r.error, Marker)
                    THEN "InvalidRepository"
                    ELSE "Failed"

\* C7: after a dispatch that failed, getLastError() is that dispatch's error
\* text, whichever path performed it.
C7_LastErrorRecorded ==
    (Dispatched /\ ~isSuccess(lastResult[1])) =>
        lastError = (IF lastResult[1].error = <<>>
                     THEN lastResult[1].output ELSE lastResult[1].error)


\* ========================================================================
\* Claims about the status decoder
\* ========================================================================
Parsed == Len(change) = 1 /\ Len(statusLine) >= 3
PathText == SubSeq(statusLine, 4, Len(statusLine))
StagedLetters == {"A", "M", "D", "R", "C"}
StagedName(x) ==
    CASE x = "A" -> "Added" [] x = "M" -> "Modified" [] x = "D" -> "Deleted"
      [] x = "R" -> "Renamed" [] x = "C" -> "Copied"

\* C8: the flag pair (X, Y) of a line of length >= 3 decides status and staged
\* flag by first match: ?? Untracked; !! Ignored; X in A/M/D/R/C that status,
\* staged; else Y in M/D that status, unstaged; else a U in either column
\* Conflicted; else Y = A Added, unstaged.
C8_FlagPrecedence ==
    Parsed =>
        LET x == statusLine[1]
            y == statusLine[2]
            c == change[1]
            quest == x = "?" /\ y = "?"
            bang == x = "!" /\ y = "!"
            is(st, staged) == c.status = st /\ c.isStaged = staged
        IN  /\ quest => is("Untracked", FALSE)
            /\ bang => is("Ignored", FALSE)
            /\ (x \in StagedLetters) => is(StagedName(x), TRUE)
            /\ (~quest /\ ~bang /\ x \notin StagedLetters) =>
                  /\ y = "M" => is("Modified", FALSE)
                  /\ y = "D" => is("Deleted", FALSE)
                  /\ (y \notin {"M", "D"} /\ (x = "U" \/ y = "U")) =>
                        is("Conflicted", FALSE)
                  /\ (y = "A" /\ x # "U") => is("Added", FALSE)

C8_Witness ==
    /\ Parsed
    /\ statusLine = <<"M", "D", " ", "a">>
    /\ change[1].status = "Modified" /\ change[1].isStaged

\* C10 (as claimed): the path of a line of length >= 3 is its text from
\* offset 3, and whenever that text contains " -> " the previous and the
\* current path are both non-empty and differ.
C10_RenamePathsDistinct ==
    Parsed =>
        IF Contains(PathText, Arrow)
        THEN /\ change[1].oldPath # <<>>
             /\ change[1].filePath # <<>>
             /\ change[1].oldPath # change[1].filePath
        ELSE change[1].filePath = PathText

\* C10 (amended): the path is the text from offset 3; when that text holds
\* the token " -> " exactly once (no token after the first one), the previous
\* path is the text before the token and the current path the text after it;
\* with no token, or with more than one, the path is the whole text and the
\* previous path is empty.
C10_RenameSplit ==
    Parsed =>
        LET hits == {i \in 1..(Len(PathText) - Len(Arrow) + 1) :
                        SubSeq(PathText, i, i + Len(Arrow) - 1) = Arrow}
            first == CHOOSE i \in hits : \A j \in hits : i <= j
            before == SubSeq(PathText, 1, first - 1)
            after == SubSeq(PathText, first + Len(Arrow), Len(PathText))
        IN  IF hits # {} /\ ~Contains(after, Arrow)
            THEN change[1].oldPath = before /\ change[1].filePath = after
            ELSE change[1].oldPath = <<>> /\ change[1].filePath = PathText

C10_Witness ==
    /\ Parsed
    /\ PathText = <<"a">> \o Arrow \o <<"b">>
    /\ change[1].oldPath = <<"a">> /\ change[1].filePath = <<"b">>

\* C9: the three summary flags of a decoded status are functions of its
\* change list: uncommitted iff some change is not Ignored, unstaged iff some
\* change is unstaged and not Untracked, staged iff some change is staged.
C9_SummaryFlags ==
    Len(status) = 1 =>
        LET s == status[1]
            idx == 1..Len(s.changes)
        IN  /\ s.hasUncommittedChanges <=>
                  \E i \in idx : s.changes[i].status # "Ignored"
            /\ s.hasUnstagedChanges <=>
                  \E i \in idx : ~s.changes[i].isStaged
                                 /\ s.changes[i].status # "Untracked"
            /\ s.hasStagedChanges <=> \E i \in idx : s.changes[i].isStaged

C9_Witness ==
    /\ Len(status) = 1
    /\ Len(status[1].changes) = 2
    /\ status[1].changes[1] = FileChange(<<"a">>, <<>>, "Added", TRUE)
    /\ status[1].changes[2] = FileChange(<<"a">>, <<>>, "Untracked", FALSE)
    /\ status[1].hasStagedChanges /\ status[1].hasUncommittedChanges
    /\ ~status[1].hasUnstagedChanges

\* ========================================================================
\* Claims about the log decoder
\* ========================================================================
Blocks == split(logOutput, NUL)
FieldsOf(block) == Len(split(block, Bar))
Decoded(i) == i \in 1..Len(commits) /\ commits[i].exitCode = 0

\* C11: a block that splits on "|" into fewer than 7 fields adds no element to
\* the list getCommitHistory returns; the list has one element per block with
\* at least 7 fields.
C11_ShortRecordsDiscarded ==
    \A i \in 1..Len(commits) :
        Decoded(i) =>
            Len(commits[i].list) =
                Cardinality({k \in 1..Len(Blocks) : FieldsOf(Blocks[k]) >= 7})

\* C18: two getCommitHistory calls on the same output, made at any two times,
\* return equal lists, the timestamp of every record included.
C18_DecodeDeterministic ==
    (Decoded(1) /\ Decoded(2)) => commits[1].list = commits[2].list

\* ========================================================================
\* Claims about GitUtils::split and GitUtils::join
\* ========================================================================
\* occurrences of d in s counted from the left without overlap
RECURSIVE Occurrences(_, _)
Occurrences(s, d) ==
    IF Len(s) < Len(d) THEN 0
    ELSE IF SubSeq(s, 1, Len(d)) = d
         THEN 1 + Occurrences(SubSeq(s, Len(d) + 1, Len(s)), d)
         ELSE Occurrences(Tail(s), d)

\* C12: split(s, d) for a non-empty d returns one token more than d occurs in
\* s without overlap, no token contains d, and join of the tokens with d is s
\* again; so a 7-field record splits on "|" and re-joins to itself, and a
\* NUL-separated text splits on NUL into its parts.
C12_SplitJoinInverse ==
    /\ tokens # <<>> =>
          /\ Len(tokens) = Occurrences(text, separator) + 1
          /\ \A i \in 1..Len(tokens) : ~Contains(tokens[i], separator)
    /\ joined # <<>> => joined[1] = text

C12_Witness ==
    /\ separator = Bar
    /\ Len(tokens) = 7
    /\ tokens[5] = <<"a">>
    /\ joined = <<text>>

\* ========================================================================
\* Claims about the diff decoder
\* ========================================================================
\* the decode ran on the text and returned
DiffDecoded == Len(diffs) = 1 /\ diffs[1].files = 0 /\ diffs[1].show = 0
TheHunks == diffs[1].list[1].hunks

\* the number a digit run of the inputs denotes (2^31 does not fit an int)
Fits(n) == n # <<"2", "1", "4", "7", "4", "8", "3", "6", "4", "8">>
NumberValue(n) ==
    CASE n = <<"1", "0">> -> 10 [] n = <<"0">> -> 0 [] n = <<"0", "7">> -> 7
      [] OTHER -> -1
CountValue(cnt) == IF cnt = <<>> THEN 1 ELSE NumberValue(Tail(cnt))
CountFits(cnt) == cnt = <<>> \/ Fits(Tail(cnt))

\* C13: a header "@@ -a[,b] +c[,d] @@" decodes to oldStart = a, newStart = c,
\* oldCount = b when ",b" is present and 1 when it is absent, newCount = d
\* when ",d" is present and 1 when it is absent; the decode fails on such a
\* header only when one of the digit runs that are present exceeds INT_MAX,
\* never because a count group is absent.
C13_HunkCounts ==
    (At(diffOutput, 1, <<"@", "@">>) /\ ~Contains(diffOutput, NL)) =>
    \A a \in Numbers, c \in Numbers, b \in Counts, d \in Counts :
      \A pad \in {<<>>, <<" ", "f">>} :
        LET header == <<"@", "@", " ", "-">> \o a \o b \o <<" ", "+">> \o c \o d
                      \o <<" ", "@", "@">> \o pad
            fits == Fits(a) /\ Fits(c) /\ CountFits(b) /\ CountFits(d)
        IN  diffOutput = header =>
              /\ thrown # "none" => ~fits
              /\ DiffDecoded =>
                    /\ fits
                    /\ Len(diffs[1].list) = 1 /\ Len(TheHunks) = 1
                    /\ TheHunks[1].header = header
                    /\ TheHunks[1].oldStart = NumberValue(a)
                    /\ TheHunks[1].oldCount = CountValue(b)
                    /\ TheHunks[1].newStart = NumberValue(c)
                    /\ TheHunks[1].newCount = CountValue(d)

C13_Witness ==
    /\ diffOutput = <<"@", "@", " ", "-", "1", "0", " ", "+", "0", "7", ",", "0", " ", "@", "@">>
    /\ DiffDecoded
    /\ TheHunks[1].oldStart = 10 /\ TheHunks[1].oldCount = 1
    /\ TheHunks[1].newStart = 7 /\ TheHunks[1].newCount = 0

\* lines of hunk h before line k that took an old (a new) number
OldBefore(h, k) ==
    Cardinality({j \in 1..(k - 1) : h.lines[j].type \in {"Deletion", "Context"}})
NewBefore(h, k) ==
    Cardinality({j \in 1..(k - 1) : h.lines[j].type \in {"Addition", "Context"}})

ScenarioText ==
    ScenarioHeader \o NL \o <<" ", "c">> \o NL \o <<"-", "d">> \o NL
    \o <<"+", "a">> \o NL \o <<"+", "a">> \o NL

\* C14: within a hunk the old and the new counter start at oldStart and
\* newStart; an Addition takes the new number only, a Deletion the old number
\* only, a Context line both, a Header line none (both stay -1), and each
\* counter advances by one per line that took its number.  The header
\* "@@ -10,3 +10,4 @@" with one context, one deletion and two additions gives
\* (10,10), (11,-), (-,11), (-,12).
C14_LineNumbers ==
    DiffDecoded =>
        /\ \A d \in 1..Len(diffs[1].list) :
             \A i \in 1..Len(diffs[1].list[d].hunks) :
               LET h == diffs[1].list[d].hunks[i]
               IN  \A k \in 1..Len(h.lines) :
                     LET l == h.lines[k]
                     IN  /\ l.oldLineNumber =
                               IF l.type \in {"Deletion", "Context"}
                               THEN h.oldStart + OldBefore(h, k) ELSE -1
                         /\ l.newLineNumber =
                               IF l.type \in {"Addition", "Context"}
                               THEN h.newStart + NewBefore(h, k) ELSE -1
        /\ diffOutput = ScenarioText =>
              /\ Len(TheHunks) = 1
              /\ [k \in 1..Len(TheHunks[1].lines) |->
                     <<TheHunks[1].lines[k].oldLineNumber,
                       TheHunks[1].lines[k].newLineNumber>>]
                 = << <<10, 10>>, <<11, -1>>, <<-1, 11>>, <<-1, 12>> >>

C14_Witness ==
    /\ diffOutput = ScenarioText
    /\ DiffDecoded
    /\ Len(TheHunks[1].lines) = 4
    /\ TheHunks[1].lines[4] = DiffLine("Addition", <<"a">>, -1, 12)
    /\ TheHunks[1].oldCount = 3 /\ TheHunks[1].newCount = 4

PreambleLines == { <<"d", "i", "f", "f">>, <<"i", "n", "d", "e", "x">>,
                   <<"+", "+", "+">>, <<"-", "-", "-">> }

\* C15: inside an open hunk a line that begins with "diff", "index", "+++" or
\* "---" becomes a Header line with its whole text and without line numbers,
\* and the line after it still takes the hunk's first numbers.
C15_PreambleIsHeader ==
    \A l \in PreambleLines, b \in BodiesOf(1) :
        (DiffDecoded /\ diffOutput = ScenarioHeader \o NL \o l \o NL \o b) =>
            /\ Len(TheHunks[1].lines) = 2
            /\ TheHunks[1].lines[1] = DiffLine("Header", l, -1, -1)
            /\ TheHunks[1].lines[2].oldLineNumber \in {-1, 10}
            /\ TheHunks[1].lines[2].newLineNumber \in {-1, 10}

\* ========================================================================
\* Claims about repository validity
\* ========================================================================
\* the three layouts of a valid target
HasMetadataDir == DotGit \in dirEntries /\ gitFile = <<>>
HasPointerFile ==
    /\ DotGit \in dirEntries /\ gitFile # <<>>
    /\ At(gitFile[1], 1, GitdirPrefix)
    /\ Len(gitFile[1]) > Len(GitdirPrefix)
IsBareRoot == BareEntries \subseteq dirEntries
ValidTarget == pathExists /\ (HasMetadataDir \/ HasPointerFile \/ IsBareRoot)

\* C16: isValidRepository is true exactly for a directory with a .git
\* directory, with a .git file whose first line begins with "gitdir: " and
\* names a directory, or with HEAD, objects and refs; openRepository returns
\* InvalidRepository for every other directory.
C16_ValidExactly ==
    /\ validResult # <<>> => (validResult[1] <=> ValidTarget)
    /\ openResult # <<>> =>
          (openResult[1].result = "InvalidRepository" <=> ~ValidTarget)

\* ========================================================================
\* Claims about all decoders
\* ========================================================================
\* C17: no decoder call raises an error to its caller, whatever text the
\* external tool printed.
C17_DecodersTotal == thrown = "none"

\* thread t has a write child running
Writing(t) == call[t].pc = "running" /\ call[t].op \in WriteOps

\* C20: write operations issued through one GitManager against the same
\* repository directory are serialized: never do two write children of
\* facade calls from two threads run against the same directory at the same
\* time.
C20_WritesSerialized ==
    \A t, u \in Threads :
        (t # u /\ Writing(t) /\ Writing(u)) => call[t].target # call[u].target

\* both decoders have extracted the counts of the branch
BothDecoded == counts.status # <<>> /\ counts.ref # <<>>

\* C21: the status decoder and the ref decoder extract the same
\* (ahead, behind) pair from the tracking clause of a branch, with 0 for a
\* part the clause lacks.
C21_SameCounts ==
    BothDecoded => counts.status = counts.ref

\* C22: execute reports a timeout only when the child had not exited by the
\* time the timeout elapsed: an invocation whose child ended before the
\* timeout elapsed never returns "Process timed out".
C22_NoTimeoutAfterExit ==
    \A t \in Threads :
        inv[t].pc = "ret_timeout" => ~child[t].inTime

\* cancel() has been called while the invocation of t was under way and a
\* poll iteration of t is still to come
CancelPending(t) == cancelled /\ inv[t].pc \in {"spawn", "setpid", "loop"}

\* C23: no cancellation request is lost: a request made while an invocation
\* is under way stays pending until that invocation returns with exit code
\* -1, also when another execute starts on the same executor in between.
C23_NoCancelLost ==
    [][\A t \in Threads :
          CancelPending(t) =>
              \/ CancelPending(t)'
              \/ /\ inv'[t].pc \in {"ret_cancel", "ret_pipe", "ret_fork"}
                 /\ inv'[t].result.exitCode = -1]_vars

\* the record r carries the epoch and the parents of the revision
FieldsRead(r) ==
    /\ r.timestamp = stoll(revision[1].epoch).value
    /\ r.parentHashes = revision[1].parents

\* C24: for getCommitHistory and for getCommit alike, the record parseCommit
\* returns has the commit's epoch seconds as timestamp and the space-split
\* parent ids as parent list.
C24_FormatMatchesDecoder ==
    /\ (shown.history # <<>> /\ shown.history[1] # <<>>)
           => FieldsRead(shown.history[1][1])
    /\ (shown.show # <<>> /\ shown.show[1] # <<>>)
           => FieldsRead(shown.show[1][1])

\* the invocation of t is past the spawn and a condition that ends it holds
Ending(t) ==
    /\ inv[t].pc \in {"loop", "check", "read", "twait"}
    /\ (expired[t] \/ cancelled \/ child[t].st = "dead")

\* C25: execute always returns: once the child has exited, the timeout has
\* elapsed or cancel() was called, the invocation returns, whatever the child
\* does with the termination signal.
C25_AlwaysReturns ==
    \A t \in Threads : Ending(t) ~> Returned(t)

\* the invocation of t has returned after it had forked a child
ReturnedAfterSpawn(t) == inv[t].pc \in {"ret_exit", "ret_timeout", "ret_cancel"}

\* C26: on every return of execute after a successful spawn the child has
\* been waited for, the read ends of the pipes are closed and the
\* current-child slot no longer names that child.
C26_CleanReturn ==
    \A t \in Threads :
        ReturnedAfterSpawn(t) =>
            /\ child[t].st = "reaped"
            /\ ~PipesOpen(t)
            /\ childPid # t

\* C27: every GitOperationResult a GitManager operation returns has a
\* category consistent with its exit code: isSuccess() holds iff exitCode
\* is 0.
C27_CategoryMatchesExitCode ==
    lastResult # <<>> =>
        (isSuccess(lastResult[1]) <=> lastResult[1].exitCode = 0)

\* C28: parseFileChange is total over flag pairs: for every status line of
\* length >= 3 the returned record has one of the eight enumerated statuses
\* and a staged flag that the line alone determines.
C28_FlagsTotal ==
    (change # <<>> /\ Len(statusLine) >= 3) =>
        /\ change[1].status \in FileStatuses
        /\ \A c \in parseFileChange(statusLine) :
               c.status = change[1].status /\ c.isStaged = change[1].isStaged

\* both dispatchers have run the same logical command
SameCommand ==
    /\ handed.args # <<>> /\ handed.string # <<>>
    /\ handed.args[1].words = handed.string[1].words

\* C29: for the same logical command the string dispatcher and the
\* argument-vector dispatcher hand the executor the same program and the
\* same argument vector, and get the same result.
C29_PathsEquivalent ==
    SameCommand =>
        /\ handed.args[1].program = handed.string[1].program
        /\ handed.args[1].argv = handed.string[1].argv
        /\ handed.args[1].result = handed.string[1].result

\* the path of the last call of the log that returned Success, the
\* constructor's path when there is none
RECURSIVE LastSuccess(_)
LastSuccess(log) ==
    IF log = <<>> THEN "repo"
    ELSE IF isSuccess(log[Len(log)].result) THEN log[Len(log)].path
    ELSE LastSuccess(SubSeq(log, 1, Len(log) - 1))

\* C30: after any sequence of openRepository, initRepository and
\* cloneRepository calls getRepositoryPath() is the path of the most recent
\* call that returned Success (the constructor's path if none did), and an
\* openRepository that does not succeed returns InvalidRepository without
\* running the external tool.
C30_PathOnlyOnSuccess ==
    /\ repositoryPath = LastSuccess(pathLog)
    /\ \A i \in 1..Len(pathLog) :
           (pathLog[i].op = "open" /\ ~isSuccess(pathLog[i].result)) =>
               (pathLog[i].result.result = "InvalidRepository" /\ ~pathLog[i].ran)

\* a successful call on one directory is followed by a failed call on the
\* other one, and the path is still the first
C30_Witness ==
    /\ Len(pathLog) >= 2
    /\ isSuccess(pathLog[1].result) /\ pathLog[1].path = "other"
    /\ ~isSuccess(pathLog[2].result) /\ pathLog[2].path = "repo"
    /\ pathLog[2].op = "init"
    /\ repositoryPath = "other"

====
